---- MODULE Spec2Model ----
(***************************************************************************)
(* Model of the ibus engine adapter MozcEngine                              *)
(* (src/src/unix/ibus/mozc_engine.cc).                                      *)
(*                                                                          *)
(* The host framework calls the engine's callbacks one at a time on its own *)
(* thread; every callback runs to completion, so each callback is one       *)
(* action.  A callback may call the session several times (UpdateAll ->     *)
(* UpdateCompositionMode -> PropertyActivate -> SetCompositionMode ->       *)
(* UpdateAll ...); the session's answers are not determined by the engine,  *)
(* so the operators that model the engine's methods return the SET of       *)
(* engine states the method can end in, one per possible sequence of        *)
(* session answers.                                                         *)
(***************************************************************************)
EXTENDS Integers, Sequences, FiniteSets, TLC

VARIABLES
    os_chromeos,               \* build variant: compiled with OS_CHROMEOS
    menu_order,                \* build variant: the order of the items of
                               \* the table kMozcEngineProperties
    prop_mozc_tool_,           \* TRUE iff the MozcTool menu was created
    alive,                     \* FALSE once the destructor has run
    now,                       \* what time(NULL) currently returns
    ticks,                     \* number of clock changes so far
    last_sync_time_,
    current_composition_mode_,
    preedit_method_,
    unique_candidate_ids_,
    prop_state,                \* state of every radio item of the mode menu
    prop_icon,                 \* icon of prop_composition_mode_
    host_preedit,              \* preedit text as the host shows it
    host_table,                \* lookup table as the host shows it
    host_aux,                  \* auxiliary text as the host shows it
    cb,                        \* the callback that has just run: its name,
                               \* inputs, result, the calls it made and the
                               \* engine state it started from
    focus_out_syncs,           \* history: the clock readings of the FocusOut
                               \* calls that called the session's SyncData
    harness,                   \* the quality test program
                               \* (client_quality_test_main.cc): the test
                               \* case its loop is at and what it sent
    renderer                   \* the Qt renderer (qt_renderer.cc): the
                               \* commands it executed, with the calls each
                               \* made to its window manager and what
                               \* ExecCommand returned

engine_vars ==
    <<os_chromeos, menu_order, prop_mozc_tool_, alive, now, ticks,
      last_sync_time_, current_composition_mode_, preedit_method_,
      unique_candidate_ids_, prop_state, prop_icon, host_preedit, host_table,
      host_aux, cb, focus_out_syncs>>

vars == <<engine_vars, harness, renderer>>

----------------------------------------------------------------------------
(* Bounds of the model *)

\* nesting depth of SetCompositionMode(DIRECT) explored within one callback
MaxDepth == 1
\* number of clock changes explored
MaxTicks == 2
\* number of segments of a preedit, and characters of a segment
MaxSegments == 2
MaxValueLength == 2
\* number of code points of the reading of a test case
MaxReading == 2
\* number of candidates of a list
MaxCandidates == 2
\* number of commands the Qt renderer executes
MaxCommands == 3

----------------------------------------------------------------------------
(* Program constants *)

kBadCandidateId == -1
kSyncDataInterval == 5 * 60

\* uint64 arithmetic.  The word is 64 bits wide in the code; the model
\* keeps 30 of them, which is as far above every clock reading and the
\* interval as the integers of the model checker allow.
Uint64Range == 2^30
Uint64Minus(a, b) == (a - b) % Uint64Range

PROP_STATE_UNCHECKED == "PROP_STATE_UNCHECKED"
PROP_STATE_CHECKED == "PROP_STATE_CHECKED"
PropStates == {PROP_STATE_UNCHECKED, PROP_STATE_CHECKED}

DIRECT == "DIRECT"
HIRAGANA == "HIRAGANA"
FULL_KATAKANA == "FULL_KATAKANA"
CompositionModes == {DIRECT, HIRAGANA, FULL_KATAKANA}

ROMAN == "ROMAN"
KANA == "KANA"
PreeditMethods == {ROMAN, KANA}

\* The items of the radio menu of composition modes: key, mode and icon.
RadioItems ==
    << [key |-> "CompositionMode.Direct", composition_mode |-> DIRECT,
        icon |-> "direct.png"],
       [key |-> "CompositionMode.Hiragana", composition_mode |-> HIRAGANA,
        icon |-> "hiragana.png"],
       [key |-> "CompositionMode.Katakana",
        composition_mode |-> FULL_KATAKANA, icon |-> "katakana_full.png"] >>
\* The orders the table of the radio menu can list its items in.
MenuOrders ==
    { o \in [1..Len(RadioItems) -> 1..Len(RadioItems)] :
        \A i, j \in DOMAIN o : o[i] = o[j] => i = j }
\* The table of the radio menu, in the order of this build.
kMozcEngineProperties ==
    [i \in 1..Len(RadioItems) |-> RadioItems[menu_order[i]]]
kMozcEnginePropertiesSize == Len(kMozcEngineProperties)

\* The menu of tools: the mode handed to LaunchTool for every item.
kMozcEngineToolProperties ==
    << [mode |-> "config_dialog"], [mode |-> "dictionary_tool"] >>
kMozcEngineToolPropertiesSize == Len(kMozcEngineToolProperties)

GetIconPath(icon) == icon

kMozcSectionName == "engine/Mozc"
NULL == "<null>"

\* The schema of config::Config: the C++ type of every field the model
\* knows, and the enum type of every enum value name the message declares.
CPPTYPE_ENUM == "CPPTYPE_ENUM"
CPPTYPE_UINT32 == "CPPTYPE_UINT32"
CPPTYPE_BOOL == "CPPTYPE_BOOL"
CPPTYPE_STRING == "CPPTYPE_STRING"
ConfigFields ==
    [preedit_method |-> [cpp_type |-> CPPTYPE_ENUM,
                         enum_type |-> "PreeditMethod"],
     suggestions_size |-> [cpp_type |-> CPPTYPE_UINT32, enum_type |-> ""],
     use_auto_ime_turn_off |-> [cpp_type |-> CPPTYPE_BOOL, enum_type |-> ""],
     custom_keymap_table |-> [cpp_type |-> CPPTYPE_STRING, enum_type |-> ""]]
ConfigEnumValues ==
    [ROMAN |-> "PreeditMethod", KANA |-> "PreeditMethod",
     KOTOERI |-> "SessionKeymap"]

\* What the host can hand to ConfigValueChanged.
G_TYPE_STRING == "G_TYPE_STRING"
G_TYPE_INT == "G_TYPE_INT"
G_TYPE_BOOLEAN == "G_TYPE_BOOLEAN"
ConfigSections == {NULL, kMozcSectionName, "general"}
ConfigNames == {NULL, "no_such_field"} \cup DOMAIN ConfigFields
GValues ==
    { [type |-> NULL, value |-> ""],
      [type |-> G_TYPE_STRING, value |-> "KANA"],
      [type |-> G_TYPE_STRING, value |-> "KOTOERI"],
      [type |-> G_TYPE_STRING, value |-> "NO_SUCH_VALUE"],
      [type |-> G_TYPE_INT, value |-> "1"],
      [type |-> G_TYPE_BOOLEAN, value |-> "TRUE"] }

----------------------------------------------------------------------------
(* Session outputs (commands::Output) *)

NONE == "NONE"
UNDERLINE == "UNDERLINE"
HIGHLIGHT == "HIGHLIGHT"

NoPreedit ==
    [segment |-> << >>, has_highlighted_position |-> FALSE,
     highlighted_position |-> 0, cursor |-> 0]
NoCandidates ==
    [has_focused_index |-> FALSE, focused_index |-> 0, size |-> 0,
     candidate |-> << >>]

Candidate(hasId, id, index, value, hasShortcut, shortcut) ==
    [has_id |-> hasId, id |-> id, index |-> index, value |-> value,
     has_shortcut |-> hasShortcut, shortcut |-> shortcut]

\* The preedit and the candidate lists the session answers with: a focused
\* list whose rows all have ids, and an unfocused list with a row without id
\* (the parent node of a cascading window).
PreeditKan ==
    [segment |-> << [value |-> <<"k", "a">>, value_length |-> 2,
                     annotation |-> UNDERLINE],
                    [value |-> <<"n">>, value_length |-> 1,
                     annotation |-> HIGHLIGHT] >>,
     has_highlighted_position |-> TRUE, highlighted_position |-> 2,
     cursor |-> 3]
CandidatesFocused ==
    [has_focused_index |-> TRUE, focused_index |-> 1, size |-> 5,
     candidate |-> << Candidate(TRUE, 10, 0, "x", TRUE, "1"),
                      Candidate(TRUE, 11, 1, "y", FALSE, "") >>]
CandidatesCascading ==
    [has_focused_index |-> FALSE, focused_index |-> 0, size |-> 2,
     candidate |-> << Candidate(FALSE, 0, 0, "p", FALSE, ""),
                      Candidate(TRUE, 22, 1, "q", FALSE, "") >>]

\* The segments a preedit can have: the value, the length the session
\* declares for it (value_length is a field of its own, which the session
\* fills in) and the annotation.
Segments ==
    [value : UNION { [1..n -> {"a"}] : n \in 0..MaxValueLength },
     value_length : 0..MaxValueLength,
     annotation : {NONE, UNDERLINE, HIGHLIGHT}]
\* The positions a preedit can carry: the session's cursor, and a
\* highlighted position that is absent, or present and before or after
\* the cursor.
Positions ==
    { [has |-> FALSE, highlighted |-> 0, cursor |-> 1],
      [has |-> TRUE, highlighted |-> 0, cursor |-> 1],
      [has |-> TRUE, highlighted |-> 2, cursor |-> 1] }
Preedits ==
    { [segment |-> segment, has_highlighted_position |-> p.has,
       highlighted_position |-> p.highlighted, cursor |-> p.cursor] :
        segment \in UNION { [1..n -> Segments] : n \in 0..MaxSegments },
        p \in Positions }

\* A default-constructed commands::Output: nothing is set.
EmptyOutput ==
    [consumed |-> FALSE, has_result |-> FALSE, has_preedit |-> FALSE,
     preedit |-> NoPreedit, has_candidates |-> FALSE,
     candidates |-> NoCandidates, has_mode |-> FALSE, mode |-> DIRECT]

\* The Outputs UpdatePreedit is given: without a preedit, or with one.
PreeditOutputs ==
    {EmptyOutput}
    \cup { [EmptyOutput EXCEPT !.has_preedit = TRUE, !.preedit = preedit] :
             preedit \in Preedits }

\* The candidate lists UpdateCandidates is given: every candidate carries
\* an index of its own, which need not be its place in the list, and the
\* focused index is absent or one of those indexes.
CandidateIndexes == 0..2
CandidateLists ==
    UNION { [1..n -> { Candidate(TRUE, 7, index, "x", FALSE, "") :
                         index \in CandidateIndexes }] :
            n \in 0..MaxCandidates }
CandidateOutputs ==
    {EmptyOutput}
    \cup { [EmptyOutput EXCEPT
               !.has_candidates = TRUE,
               !.candidates = [has_focused_index |-> f.has,
                               focused_index |-> f.index, size |-> 5,
                               candidate |-> list]] :
             list \in CandidateLists,
             f \in {[has |-> FALSE, index |-> 0]}
                   \cup {[has |-> TRUE, index |-> i] :
                           i \in CandidateIndexes} }

\* What an Output carries besides its mode and its consumed flag: nothing,
\* a result alone (a commit), a preedit with the focused list (a
\* conversion), or a result with a new preedit and the cascading list.
OutputBodies ==
    { EmptyOutput,
      [EmptyOutput EXCEPT !.has_result = TRUE],
      [EmptyOutput EXCEPT !.has_preedit = TRUE, !.preedit = PreeditKan,
                          !.has_candidates = TRUE,
                          !.candidates = CandidatesFocused],
      [EmptyOutput EXCEPT !.has_result = TRUE, !.has_preedit = TRUE,
                          !.preedit = PreeditKan, !.has_candidates = TRUE,
                          !.candidates = CandidatesCascading] }

Outputs ==
    { [o EXCEPT !.consumed = c, !.has_mode = m.has, !.mode = m.v] :
        o \in OutputBodies, c \in BOOLEAN,
        m \in {[has |-> FALSE, v |-> DIRECT]}
              \cup {[has |-> TRUE, v |-> x] : x \in CompositionModes} }

\* What a session call can answer: failure leaves the caller's Output as it
\* was constructed, success fills it.
SendKeyResponses ==
    {[ok |-> FALSE, output |-> EmptyOutput]}
    \cup {[ok |-> TRUE, output |-> o] : o \in Outputs}

\* UpdateAll never reads consumed, which only ProcessKeyEvent returns.
SendCommandResponses ==
    {[ok |-> FALSE, output |-> EmptyOutput]}
    \cup {[ok |-> TRUE, output |-> o] : o \in {x \in Outputs : ~x.consumed}}

\* SetCompositionMode never reads the Output of SWITCH_INPUT_MODE.
SwitchInputModeResponses ==
    {[ok |-> FALSE, output |-> EmptyOutput],
     [ok |-> TRUE, output |-> EmptyOutput]}

GetConfigResponses ==
    {[ok |-> FALSE, has_preedit_method |-> FALSE, preedit_method |-> ROMAN],
     [ok |-> TRUE, has_preedit_method |-> FALSE, preedit_method |-> ROMAN]}
    \cup {[ok |-> TRUE, has_preedit_method |-> TRUE, preedit_method |-> pm] :
            pm \in PreeditMethods}

----------------------------------------------------------------------------
(* The record of what a callback did *)

\* One call: k names it; a session call carries whether it succeeded (ok) and,
\* for SendKey and SendCommand, the command (t, id, m) and the Output the
\* caller's variable holds afterwards (out); entering and leaving
\* SetCompositionMode is recorded with the requested mode (m), the value of
\* current_composition_mode_ at that moment (t) and the nesting depth (id).
Ev(kind, type, id, mode, ok, out) ==
    [k |-> kind, t |-> type, id |-> id, m |-> mode, ok |-> ok, out |-> out]

SessionEv(kind, ok) == Ev(kind, "", 0, "", ok, EmptyOutput)
SendKeyEv(r) == Ev("SendKey", "", 0, "", r.ok, r.output)
CommandEv(type, id, mode, r) ==
    Ev("SendCommand", type, id, mode, r.ok, r.output)
HostEv(kind) == Ev(kind, "", 0, "", TRUE, EmptyOutput)
CallEv(kind, mode, cur, depth) == Ev(kind, cur, depth, mode, TRUE, EmptyOutput)

SessionKinds ==
    {"SendKey", "SendCommand", "GetConfig", "SetConfig", "SyncData",
     "EnsureConnection", "LaunchTool"}
HostKinds ==
    {"commit_text", "update_preedit_text", "hide_preedit_text",
     "update_lookup_table", "hide_lookup_table", "update_auxiliary_text",
     "hide_auxiliary_text", "update_property", "register_properties"}

Emit(e, ev) == [e EXCEPT !.log = Append(@, ev)]

----------------------------------------------------------------------------
(* Rendering: pure functions of the session's Output *)

RECURSIVE ConcatValues(_, _)
ConcatValues(segment, i) ==
    IF i > Len(segment) THEN << >>
    ELSE segment[i].value \o ConcatValues(segment, i + 1)

UnderlineOf(annotation) ==
    CASE annotation = NONE -> "IBUS_ATTR_UNDERLINE_NONE"
      [] annotation = UNDERLINE -> "IBUS_ATTR_UNDERLINE_SINGLE"
      [] annotation = HIGHLIGHT -> "IBUS_ATTR_UNDERLINE_DOUBLE"
      [] OTHER -> "IBUS_ATTR_UNDERLINE_ERROR"

Attr(type, value, start, end) ==
    [type |-> type, value |-> value, start |-> start, end |-> end]

\* The attributes of segments i.. when every segment starts at 0.
RECURSIVE SegmentAttributes_KeepStart(_, _, _)
SegmentAttributes_KeepStart(segment, i, start) ==
    IF i > Len(segment) THEN << >>
    ELSE LET seg == segment[i]
             end == start + seg.value_length
             underline == << Attr("IBUS_ATTR_TYPE_UNDERLINE",
                                  UnderlineOf(seg.annotation), start, end) >>
             colors == IF seg.annotation = HIGHLIGHT
                       THEN << Attr("IBUS_ATTR_TYPE_BACKGROUND", "0xD1EAFF",
                                    start, end),
                               Attr("IBUS_ATTR_TYPE_FOREGROUND", "0x000000",
                                    start, end) >>
                       ELSE << >>
         IN  underline \o colors
             \o SegmentAttributes_KeepStart(segment, i + 1, start)

\* The attributes of segments i.. when every annotated segment is coloured.
RECURSIVE SegmentAttributes_ColourUnderlined(_, _, _)
SegmentAttributes_ColourUnderlined(segment, i, start) ==
    IF i > Len(segment) THEN << >>
    ELSE LET seg == segment[i]
             end == start + seg.value_length
             underline == << Attr("IBUS_ATTR_TYPE_UNDERLINE",
                                  UnderlineOf(seg.annotation), start, end) >>
             colors == IF seg.annotation # NONE
                       THEN << Attr("IBUS_ATTR_TYPE_BACKGROUND", "0xD1EAFF",
                                    start, end),
                               Attr("IBUS_ATTR_TYPE_FOREGROUND", "0x000000",
                                    start, end) >>
                       ELSE << >>
         IN  underline \o colors
             \o SegmentAttributes_ColourUnderlined(segment, i + 1, end)

\* The attributes of segments i.. when the segments before i end at start.
RECURSIVE SegmentAttributes(_, _, _)
SegmentAttributes(segment, i, start) ==
    IF i > Len(segment) THEN << >>
    ELSE LET seg == segment[i]
             end == start + seg.value_length
             underline == << Attr("IBUS_ATTR_TYPE_UNDERLINE",
                                  UnderlineOf(seg.annotation), start, end) >>
             colors == IF seg.annotation = HIGHLIGHT
                       THEN << Attr("IBUS_ATTR_TYPE_BACKGROUND", "0xD1EAFF",
                                    start, end),
                               Attr("IBUS_ATTR_TYPE_FOREGROUND", "0x000000",
                                    start, end) >>
                       ELSE << >>
         IN  underline \o colors \o SegmentAttributes(segment, i + 1, end)

ComposePreeditText(preedit) ==
    [text |-> ConcatValues(preedit.segment, 1),
     attrs |-> SegmentAttributes(preedit.segment, 1, 0)]

\* CursorPos that takes the session's cursor whenever there is a preedit.
CursorPos_SessionCursor(output) ==
    IF ~output.has_preedit THEN 0
    ELSE output.preedit.cursor

CursorPos(output) ==
    IF ~output.has_preedit THEN 0
    ELSE IF output.preedit.has_highlighted_position
         THEN output.preedit.highlighted_position
         ELSE output.preedit.cursor

\* ComposeAuxiliaryText that counts the focused candidate from 0.
ComposeAuxiliaryText_FromZero(candidates) ==
    ToString(candidates.focused_index) \o "/" \o ToString(candidates.size)

ComposeAuxiliaryText(candidates) ==
    ToString(candidates.focused_index + 1) \o "/" \o ToString(candidates.size)

\* cursor_pos taken from the focused index itself.
FocusedRow_FocusedIndex(candidates, i, cursor_pos) ==
    candidates.focused_index

\* cursor_pos after the scan of candidates i..: the last match wins.
RECURSIVE FocusedRow(_, _, _)
FocusedRow(candidates, i, cursor_pos) ==
    IF i > Len(candidates.candidate) THEN cursor_pos
    ELSE FocusedRow(candidates, i + 1,
                    IF candidates.focused_index = candidates.candidate[i].index
                    THEN i - 1 ELSE cursor_pos)

TableRow(candidate) ==
    [text |-> candidate.value,
     label |-> IF candidate.has_shortcut THEN candidate.shortcut ELSE ""]

CandidateIds(candidates) ==
    [i \in 1..Len(candidates.candidate) |->
        IF candidates.candidate[i].has_id THEN candidates.candidate[i].id
        ELSE kBadCandidateId]

HiddenPreedit ==
    [visible |-> FALSE, text |-> << >>, attrs |-> << >>, cursor_pos |-> 0]
HiddenTable ==
    [visible |-> FALSE, rows |-> << >>, cursor_pos |-> 0,
     cursor_visible |-> FALSE, candidates |-> NoCandidates]
HiddenAux == [visible |-> FALSE, text |-> ""]

----------------------------------------------------------------------------
(* The engine's methods.  e is the engine and host state a method runs on:  *)
(*   mode, ids, props, icon   current_composition_mode_,                    *)
(*                            unique_candidate_ids_, the radio items' state *)
(*                            and the menu icon                             *)
(*   pm, sync                 preedit_method_ and last_sync_time_           *)
(*   preedit, table, aux      what the host shows                           *)
(*   ret                      the value the callback returns                *)
(*   log                      the calls made so far in this callback        *)
(*   depth, trunc             nesting of SetCompositionMode; trunc is set   *)
(*                            when the nesting of SetCompositionMode(DIRECT)*)
(*                            passes MaxDepth, and the callback is then not *)
(*                            followed further                              *)

UpdateResult(e, output) ==
    IF ~output.has_result THEN e
    ELSE Emit(e, HostEv("commit_text"))

UpdatePreedit(e, output) ==
    IF ~output.has_preedit
    THEN Emit([e EXCEPT !.preedit = HiddenPreedit],
              HostEv("hide_preedit_text"))
    ELSE LET text == ComposePreeditText(output.preedit)
         IN  Emit([e EXCEPT !.preedit =
                       [visible |-> TRUE, text |-> text.text,
                        attrs |-> text.attrs,
                        cursor_pos |-> CursorPos(output)]],
                  HostEv("update_preedit_text"))

\* UpdateCandidates that clears the ids only when it fills them again.
UpdateCandidates_KeepIds(e, output) ==
    LET candidates == output.candidates
    IN  IF ~output.has_candidates
        THEN Emit(Emit([e EXCEPT !.aux = HiddenAux, !.table = HiddenTable],
                       HostEv("hide_auxiliary_text")),
                  HostEv("hide_lookup_table"))
        ELSE LET cursor_pos ==
                     IF candidates.has_focused_index
                     THEN FocusedRow(candidates, 1, 0) ELSE 0
                 table ==
                     [visible |-> TRUE,
                      rows |-> [i \in 1..Len(candidates.candidate) |->
                                   TableRow(candidates.candidate[i])],
                      cursor_pos |-> cursor_pos,
                      cursor_visible |-> candidates.has_focused_index,
                      candidates |-> candidates]
                 shown == Emit([e EXCEPT !.table = table],
                               HostEv("update_lookup_table"))
                 withAux ==
                     IF candidates.has_focused_index
                     THEN Emit([shown EXCEPT !.aux =
                                    [visible |-> TRUE,
                                     text |-> ComposeAuxiliaryText(candidates)]],
                               HostEv("update_auxiliary_text"))
                     ELSE Emit([shown EXCEPT !.aux = HiddenAux],
                               HostEv("hide_auxiliary_text"))
             IN  [withAux EXCEPT !.ids = CandidateIds(candidates)]

UpdateCandidates(e, output) ==
    LET cleared == [e EXCEPT !.ids = << >>]
        candidates == output.candidates
    IN  IF ~output.has_candidates
        THEN Emit(Emit([cleared EXCEPT !.aux = HiddenAux,
                                       !.table = HiddenTable],
                       HostEv("hide_auxiliary_text")),
                  HostEv("hide_lookup_table"))
        ELSE LET cursor_pos ==
                     IF candidates.has_focused_index
                     THEN FocusedRow(candidates, 1, 0) ELSE 0
                 table ==
                     [visible |-> TRUE,
                      rows |-> [i \in 1..Len(candidates.candidate) |->
                                   TableRow(candidates.candidate[i])],
                      cursor_pos |-> cursor_pos,
                      cursor_visible |-> candidates.has_focused_index,
                      candidates |-> candidates]
                 shown == Emit([cleared EXCEPT !.table = table],
                               HostEv("update_lookup_table"))
                 withAux ==
                     IF candidates.has_focused_index
                     THEN Emit([shown EXCEPT !.aux =
                                    [visible |-> TRUE,
                                     text |-> ComposeAuxiliaryText(candidates)]],
                               HostEv("update_auxiliary_text"))
                     ELSE Emit([shown EXCEPT !.aux = HiddenAux],
                               HostEv("hide_auxiliary_text"))
             IN  [withAux EXCEPT !.ids = CandidateIds(candidates)]

RECURSIVE UpdateAll(_, _)
RECURSIVE UpdateCompositionMode(_, _)
RECURSIVE UpdateCompositionModeFrom(_, _, _)
RECURSIVE PropertyActivate(_, _, _)
RECURSIVE PropertyActivateFrom(_, _, _)
RECURSIVE SetCompositionMode(_, _)

\* SetCompositionMode with a slip: "revert" sends REVERT where the code
\* sends SUBMIT, "success" updates the mode only when the command succeeded.
SetCompositionModeWith(e, composition_mode, bug) ==
    LET entered == Emit([e EXCEPT !.depth = @ + 1],
                        CallEv("call SetCompositionMode", composition_mode,
                               e.mode, e.depth + 1))
        Leave(x, ok) ==
            IF x.trunc THEN x
            ELSE LET y == [x EXCEPT !.mode = IF bug = "success" /\ ~ok THEN @
                                             ELSE composition_mode,
                                    !.depth = @ - 1]
                 IN  Emit(y, CallEv("return SetCompositionMode",
                                    composition_mode, y.mode, x.depth))
        type == IF bug = "revert" THEN "REVERT" ELSE "SUBMIT"
    IN  IF e.trunc THEN {e}
        ELSE IF composition_mode = DIRECT
        THEN IF e.depth >= MaxDepth THEN {[e EXCEPT !.trunc = TRUE]}
             ELSE UNION { { Leave(x, r.ok) :
                              x \in UpdateAll(
                                        Emit(entered,
                                             CommandEv(type, 0, "", r)),
                                        r.output) } :
                          r \in SendCommandResponses }
        ELSE { Leave(Emit(entered, CommandEv("SWITCH_INPUT_MODE", 0,
                                             composition_mode, r)), r.ok) :
                 r \in SwitchInputModeResponses }

SetCompositionMode_Revert(e, composition_mode) ==
    SetCompositionModeWith(e, composition_mode, "revert")
SetCompositionMode_OnlyOnSuccess(e, composition_mode) ==
    SetCompositionModeWith(e, composition_mode, "success")

SetCompositionMode(e, composition_mode) ==
    LET entered == Emit([e EXCEPT !.depth = @ + 1],
                        CallEv("call SetCompositionMode", composition_mode,
                               e.mode, e.depth + 1))
        Leave(x) ==
            IF x.trunc THEN x
            ELSE LET y == [x EXCEPT !.mode = composition_mode,
                                    !.depth = @ - 1]
                 IN  Emit(y, CallEv("return SetCompositionMode",
                                    composition_mode, y.mode, x.depth))
    IN  IF e.trunc THEN {e}
        ELSE IF composition_mode = DIRECT
        THEN IF e.depth >= MaxDepth THEN {[e EXCEPT !.trunc = TRUE]}
             ELSE UNION { { Leave(x) :
                              x \in UpdateAll(
                                        Emit(entered,
                                             CommandEv("SUBMIT", 0, "", r)),
                                        r.output) } :
                          r \in SendCommandResponses }
        ELSE { Leave(Emit(entered, CommandEv("SWITCH_INPUT_MODE", 0,
                                             composition_mode, r))) :
                 r \in SwitchInputModeResponses }

ToolKeys ==
    { kMozcEngineToolProperties[i].mode : i \in 1..kMozcEngineToolPropertiesSize }

\* The loop of PropertyActivate over the radio items i.. of the mode menu.
PropertyActivateFrom(e, property_name, i) ==
    IF e.trunc THEN {e}
    ELSE IF i > kMozcEnginePropertiesSize
    THEN {Emit(e, HostEv("update_property"))}
    ELSE LET entry == kMozcEngineProperties[i]
         IN  IF property_name = entry.key
             THEN UNION { PropertyActivateFrom(
                              IF x.trunc THEN x
                              ELSE [x EXCEPT !.icon = GetIconPath(entry.icon),
                                             !.props[i] = PROP_STATE_CHECKED],
                              property_name, i + 1) :
                          x \in SetCompositionMode(e, entry.composition_mode) }
             ELSE PropertyActivateFrom(
                      [e EXCEPT !.props[i] = PROP_STATE_UNCHECKED],
                      property_name, i + 1)

\* PropertyActivate that does not look at the state of a radio item.
PropertyActivate_IgnoreState(e, property_name, property_state) ==
    IF e.trunc THEN {e}
    ELSE IF prop_mozc_tool_ /\ property_name \in ToolKeys
    THEN { Emit(e, Ev("LaunchTool", property_name, 0, "", ok, EmptyOutput)) :
             ok \in BOOLEAN }
    ELSE PropertyActivateFrom(e, property_name, 1)

PropertyActivate(e, property_name, property_state) ==
    IF e.trunc THEN {e}
    ELSE IF prop_mozc_tool_ /\ property_name \in ToolKeys
    THEN { Emit(e, Ev("LaunchTool", property_name, 0, "", ok, EmptyOutput)) :
             ok \in BOOLEAN }
    ELSE IF property_state # PROP_STATE_CHECKED THEN {e}
    ELSE PropertyActivateFrom(e, property_name, 1)

\* The loop of UpdateCompositionMode over the entries i.. of the table.
UpdateCompositionModeFrom(e, new_composition_mode, i) ==
    IF e.trunc THEN {e}
    ELSE IF i > kMozcEnginePropertiesSize THEN {e}
    ELSE LET entry == kMozcEngineProperties[i]
         IN  IF entry.composition_mode = new_composition_mode
             THEN UNION { UpdateCompositionModeFrom(x, new_composition_mode,
                                                    i + 1) :
                          x \in PropertyActivate(e, entry.key,
                                                 PROP_STATE_CHECKED) }
             ELSE UpdateCompositionModeFrom(e, new_composition_mode, i + 1)

\* UpdateCompositionMode that takes an Output without a mode for DIRECT.
UpdateCompositionMode_DefaultDirect(e, output) ==
    LET new_composition_mode == IF output.has_mode THEN output.mode
                                ELSE DIRECT
    IN  IF e.mode = new_composition_mode THEN {e}
        ELSE UpdateCompositionModeFrom(e, new_composition_mode, 1)

\* UpdateCompositionMode that never follows the session's mode.
UpdateCompositionMode_KeepMode(e, output) == {e}

UpdateCompositionMode(e, output) ==
    IF ~output.has_mode THEN {e}
    ELSE IF e.mode = output.mode THEN {e}
    ELSE UpdateCompositionModeFrom(e, output.mode, 1)

\* UpdateAll that follows the session's mode before it renders.
UpdateAll_ModeFirst(e, output) ==
    { UpdateCandidates(UpdatePreedit(UpdateResult(x, output), output),
                       output) :
        x \in UpdateCompositionMode(e, output) }

UpdateAll(e, output) ==
    UpdateCompositionMode(
        UpdateCandidates(UpdatePreedit(UpdateResult(e, output), output),
                         output),
        output)

RevertSession(e) ==
    UNION { IF ~r.ok THEN {Emit(e, CommandEv("REVERT", 0, "", r))}
            ELSE UpdateAll(Emit(e, CommandEv("REVERT", 0, "", r)), r.output) :
            r \in SendCommandResponses }

UpdatePreeditMethod(e) ==
    { IF ~g.ok THEN Emit(e, SessionEv("GetConfig", FALSE))
      ELSE [Emit(e, SessionEv("GetConfig", TRUE)) EXCEPT
                !.pm = IF g.has_preedit_method THEN g.preedit_method
                       ELSE ROMAN] :
      g \in GetConfigResponses }

\* SyncData that does not wait for the interval to pass.
SyncData_NoInterval(e, force) ==
    LET current_time == now
    IN  IF force \/ current_time >= e.sync
        THEN [Emit(e, SessionEv("SyncData", TRUE)) EXCEPT
                  !.sync = current_time]
        ELSE e

\* SyncData that does not look at force.
SyncData_IgnoreForce(e, force) ==
    LET current_time == now
    IN  IF current_time >= e.sync
           /\ Uint64Minus(current_time, e.sync) >= kSyncDataInterval
        THEN [Emit(e, SessionEv("SyncData", TRUE)) EXCEPT
                  !.sync = current_time]
        ELSE e

\* SyncData that subtracts without comparing the two times first.
SyncData_NoOrderTest(e, force) ==
    LET current_time == now
    IN  IF force
           \/ Uint64Minus(current_time, e.sync) >= kSyncDataInterval
        THEN [Emit(e, SessionEv("SyncData", TRUE)) EXCEPT
                  !.sync = current_time]
        ELSE e

SyncData(e, force) ==
    LET current_time == now
    IN  IF force \/ (current_time >= e.sync
                     /\ Uint64Minus(current_time, e.sync)
                            >= kSyncDataInterval)
        THEN [Emit(e, SessionEv("SyncData", TRUE)) EXCEPT
                  !.sync = current_time]
        ELSE e

\* The end of UpdateConfig: the configuration goes to the session.
PushConfig(e, name) ==
    { Emit(Emit(e, Ev("SetConfig", name, 0, "", ok, EmptyOutput)),
           SessionEv("SyncData", TRUE)) : ok \in BOOLEAN }

\* UpdateConfig with one of its tests left out: bug names the test.
UpdateConfigWithout(e, section, name, gvalue, bug) ==
    IF ~os_chromeos THEN {e}
    ELSE IF section = NULL \/ name = NULL \/ gvalue.type = NULL THEN {e}
    ELSE IF section # kMozcSectionName /\ bug # "section" THEN {e}
    ELSE IF name \notin DOMAIN ConfigFields THEN {e}
    ELSE LET field_to_update == ConfigFields[name]
         IN  CASE field_to_update.cpp_type = CPPTYPE_ENUM ->
                    IF gvalue.type # G_TYPE_STRING THEN {e}
                    ELSE IF gvalue.value \notin DOMAIN ConfigEnumValues
                    THEN {e}
                    ELSE IF ConfigEnumValues[gvalue.value]
                                # field_to_update.enum_type
                    \* SetEnum with a value of another enum type: the
                    \* library reports a usage error and aborts, or goes on
                    THEN {Emit(e, SessionEv("abort", FALSE))}
                         \cup PushConfig(e, name)
                    ELSE PushConfig(e, name)
               [] field_to_update.cpp_type = CPPTYPE_UINT32 ->
                    IF gvalue.type # G_TYPE_INT THEN {e}
                    ELSE PushConfig(e, name)
               [] field_to_update.cpp_type = CPPTYPE_BOOL ->
                    IF gvalue.type # G_TYPE_BOOLEAN THEN {e}
                    ELSE PushConfig(e, name)
               [] OTHER -> {e}

UpdateConfig_AnySection(e, section, name, gvalue) ==
    UpdateConfigWithout(e, section, name, gvalue, "section")

UpdateConfig(e, section, name, gvalue) ==
    UpdateConfigWithout(e, section, name, gvalue, "")

\* CandidateClicked that takes every row for a candidate.
CandidateClicked_NoSentinelCheck(e, index) ==
    IF index >= Len(e.ids) THEN {e}
    ELSE LET id == e.ids[index + 1]
         IN  UNION { UpdateAll(Emit(e, CommandEv("SELECT_CANDIDATE", id,
                                                 "", r)),
                               r.output) :
                     r \in SendCommandResponses }

CandidateClicked(e, index) ==
    IF index >= Len(e.ids) THEN {e}
    ELSE LET id == e.ids[index + 1]
         IN  IF id = kBadCandidateId THEN {e}
             ELSE UNION { UpdateAll(Emit(e, CommandEv("SELECT_CANDIDATE", id,
                                                      "", r)),
                                    r.output) :
                          r \in SendCommandResponses }

Disable(e) == RevertSession(e)

\* Enable that reverts the session only when the connection is there.
Enable_RevertIfConnected(e) ==
    UNION { UNION { IF x.log[Len(x.log)].ok THEN RevertSession(y) ELSE {y} :
                    y \in UpdatePreeditMethod(x) } :
            x \in { Emit(e, SessionEv("EnsureConnection", ok)) :
                      ok \in BOOLEAN } }

Enable(e) ==
    UNION { UNION { RevertSession(y) : y \in UpdatePreeditMethod(x) } :
            x \in { Emit(e, SessionEv("EnsureConnection", ok)) :
                      ok \in BOOLEAN } }

FocusIn(e) == {Emit(e, HostEv("register_properties"))}

\* FocusOut that syncs only after a REVERT that succeeded.
FocusOut_SyncOnlyAfterRevert(e) ==
    { IF x.trunc \/ ~x.log[Len(e.log) + 1].ok THEN x
      ELSE SyncData(x, FALSE) : x \in RevertSession(e) }

FocusOut(e) ==
    { IF x.trunc THEN x ELSE SyncData(x, FALSE) : x \in RevertSession(e) }

Reset(e) == RevertSession(e)

\* ProcessKeyEvent with one of its tests left out: bug names the test.
ProcessKeyEventWithout(e, release, translated, turnOn, bug) ==
    IF release /\ bug # "release" THEN {[e EXCEPT !.ret = FALSE]}
    ELSE UNION {
        IF ~translated /\ bug # "translate" THEN {[y EXCEPT !.ret = FALSE]}
        ELSE IF y.mode = DIRECT /\ ~turnOn /\ bug # "direct"
        THEN {[y EXCEPT !.ret = FALSE]}
        ELSE UNION {
            IF ~r.ok /\ bug # "sendkey"
            THEN {[Emit(y, SendKeyEv(r)) EXCEPT !.ret = FALSE]}
            ELSE { [x EXCEPT !.ret = IF bug = "consumed" THEN TRUE
                                     ELSE r.output.consumed] :
                     x \in UpdateAll(Emit(y, SendKeyEv(r)), r.output) } :
            r \in SendKeyResponses } :
        y \in IF os_chromeos THEN UpdatePreeditMethod(e) ELSE {e} }

ProcessKeyEvent_NoReleaseCheck(e, release, translated, turnOn) ==
    ProcessKeyEventWithout(e, release, translated, turnOn, "release")
ProcessKeyEvent_NoTranslateCheck(e, release, translated, turnOn) ==
    ProcessKeyEventWithout(e, release, translated, turnOn, "translate")
ProcessKeyEvent_NoDirectCheck(e, release, translated, turnOn) ==
    ProcessKeyEventWithout(e, release, translated, turnOn, "direct")
ProcessKeyEvent_NoSendKeyCheck(e, release, translated, turnOn) ==
    ProcessKeyEventWithout(e, release, translated, turnOn, "sendkey")
ProcessKeyEvent_AlwaysConsumed(e, release, translated, turnOn) ==
    ProcessKeyEventWithout(e, release, translated, turnOn, "consumed")

\* release: modifiers has IBUS_RELEASE_MASK; translated: what Translate
\* returns; turnOn: what IsTurnOnInDirectMode says of the translated key.
ProcessKeyEvent(e, release, translated, turnOn) ==
    IF release THEN {[e EXCEPT !.ret = FALSE]}
    ELSE UNION {
        IF ~translated THEN {[y EXCEPT !.ret = FALSE]}
        ELSE IF y.mode = DIRECT /\ ~turnOn THEN {[y EXCEPT !.ret = FALSE]}
        ELSE UNION {
            IF ~r.ok
            THEN {[Emit(y, SendKeyEv(r)) EXCEPT !.ret = FALSE]}
            ELSE { [x EXCEPT !.ret = r.output.consumed] :
                     x \in UpdateAll(Emit(y, SendKeyEv(r)), r.output) } :
            r \in SendKeyResponses } :
        y \in IF os_chromeos THEN UpdatePreeditMethod(e) ELSE {e} }

----------------------------------------------------------------------------
(* The quality test program (client_quality_test_main.cc) *)

\* FLAGS_max_case_for_source: the cases scored for one source (500 unless
\* the flag is given).
max_case_for_source == 2

\* The source labels of test_cases, in the order of the keys of the map
\* scores (std::map keeps its keys sorted).
SourceOrder == <<"news", "web">>
SourceLabels == { SourceOrder[i] : i \in DOMAIN SourceOrder }

\* The map scores before the loop: no key.  The model keeps, for every
\* key, how many scores its vector holds.
NoScores == [source \in {} |-> 0]

\* scores.find(source) == scores.end() inserts an empty vector.
FindOrInsert(scores, source) ==
    IF source \in DOMAIN scores THEN scores
    ELSE [x \in DOMAIN scores \cup {source} |->
             IF x = source THEN 0 ELSE scores[x]]

\* CalculateMean: CHECK(!scores.empty()) ends the program when the vector
\* is empty.
CalculateMean(size) == [ok |-> size > 0]

\* The loop that prints the means, over the keys i.. of scores in their
\* order: the labels printed, and whether a CHECK ended the program.
RECURSIVE ReportFrom(_, _, _)
ReportFrom(scores, i, printed) ==
    IF i > Len(SourceOrder) THEN [aborted |-> FALSE, printed |-> printed]
    ELSE IF SourceOrder[i] \notin DOMAIN scores
    THEN ReportFrom(scores, i + 1, printed)
    ELSE IF ~CalculateMean(scores[SourceOrder[i]]).ok
    THEN [aborted |-> TRUE, printed |-> printed]
    ELSE ReportFrom(scores, i + 1, Append(printed, SourceOrder[i]))

\* The code points a normalized reading is made of: the ends of the ASCII
\* range and their neighbours, a letter, the punctuation and brackets of
\* the table, and two code points the table does not have.
CodePoints ==
    { 31, 32, 97, 127, 128,        \* 0x1F 0x20 'a' 0x7F 0x80
      12289, 65380,                \* 0x3001 0xFF64
      12290, 65294, 65377,         \* 0x3002 0xFF0E 0xFF61
      8722, 8213,                  \* 0x2212 0x2015
      12300, 65378,                \* 0x300C 0xFF62
      12301, 65379,                \* 0x300D 0xFF63
      12539, 65381,                \* 0x30FB 0xFF65
      65374, 12302 }               \* 0xFF5E 0x300E
Readings == UNION { [1..n -> CodePoints] : n \in 0..MaxReading }

\* commands::KeyEvent with key_code or special_key set.
KeyCode(code) == [special_key |-> "", key_code |-> code]
SpecialKey(key) == [special_key |-> key, key_code |-> 0]

\* The key code of one code point; -1 where the code returns false.
KeyCodeOf(ucs4) ==
    IF ucs4 >= 32 /\ ucs4 <= 127 THEN ucs4
    ELSE IF ucs4 = 12289 \/ ucs4 = 65380 THEN 44
    ELSE IF ucs4 = 12290 \/ ucs4 = 65294 \/ ucs4 = 65377 THEN 46
    ELSE IF ucs4 = 8722 \/ ucs4 = 8213 THEN 45
    ELSE IF ucs4 = 12300 \/ ucs4 = 65378 THEN 91
    ELSE IF ucs4 = 12301 \/ ucs4 = 65379 THEN 93
    ELSE IF ucs4 = 12539 \/ ucs4 = 65381 THEN 47
    ELSE -1

\* The loop of GenerateKeySequenceFrom over the code points i.. of input,
\* keys being the key events pushed so far.
RECURSIVE GenerateKeysFrom(_, _, _)
GenerateKeysFrom(input, i, keys) ==
    IF i > Len(input)
    THEN [ok |-> TRUE, keys |-> Append(keys, SpecialKey("SPACE"))]
    ELSE IF KeyCodeOf(input[i]) = -1 THEN [ok |-> FALSE, keys |-> keys]
    ELSE GenerateKeysFrom(input, i + 1,
                          Append(keys, KeyCode(KeyCodeOf(input[i]))))

\* GenerateKeySequenceFrom without the conversion key.
GenerateKeySequenceFrom_NoConversionKey(input) ==
    LET g == GenerateKeysFrom(input, 1, << >>)
    IN  IF g.ok THEN [g EXCEPT !.keys = SubSeq(@, 1, Len(@) - 1)] ELSE g

\* input is the reading after HiraganaToRomanji and FullWidthToHalfWidth.
GenerateKeySequenceFrom(input) == GenerateKeysFrom(input, 1, << >>)

\* The Output the session's last answer left: without a preedit, with an
\* empty one, or with text.
LastOutputs == {"no preedit", "empty preedit", "preedit"}

SentKey(key) == [k |-> "SendKey", key |-> key]
SentCommand(type) == [k |-> "SendCommand", key |-> SpecialKey(type)]

\* CalculateBLEU: whether it returned true, the key events it generated
\* and the calls it made to the session.
CalculateBLEU(input, output) ==
    LET g == GenerateKeySequenceFrom(input)
        sent == <<SentKey(SpecialKey("ON"))>>
                \o [i \in 1..Len(g.keys) |-> SentKey(g.keys[i])]
    IN  IF ~g.ok THEN [ok |-> FALSE, g |-> g, log |-> << >>]
        ELSE IF output # "preedit" THEN [ok |-> FALSE, g |-> g, log |-> sent]
        ELSE [ok |-> TRUE, g |-> g,
              log |-> Append(sent, SentCommand("REVERT"))]

\* The test program before its first test case.
HarnessStart ==
    [phase |-> "next", scores |-> NoScores, printed |-> << >>,
     unreverted |-> FALSE,
     pending |-> FALSE, input |-> << >>, skipped |-> FALSE, ok |-> FALSE,
     g |-> [ok |-> FALSE, keys |-> << >>], log |-> << >>]

\* Key events went to the session and no REVERT followed them.
Unreverted(before, log) ==
    IF \E i \in DOMAIN log : log[i].k = "SendCommand" THEN FALSE
    ELSE before \/ log # << >>

----------------------------------------------------------------------------
(* The Qt renderer (qt_renderer.cc) *)

\* commands::RendererCommand::CommandType, and a value the switch of
\* ExecCommand has no case for.
NOOP == "NOOP"
UPDATE == "UPDATE"
SHUTDOWN == "SHUTDOWN"
UnknownType == "99"
CommandTypes == {NOOP, UPDATE, SHUTDOWN, UnknownType}

\* The commands ExecCommand is given; visible() is false when the field is
\* not set.
RendererCommands ==
    [type : CommandTypes, visible : BOOLEAN]

\* The calls QtRenderer makes to window_manager_.
HideAllWindows == [k |-> "HideAllWindows", command |-> << >>]
UpdateLayout(command) == [k |-> "UpdateLayout", command |-> <<command>>]

\* ExecCommand that lays out whatever visible() says.
ExecCommand_AlwaysLayout(command) ==
    CASE command.type = NOOP -> [ret |-> TRUE, calls |-> << >>]
      [] command.type = SHUTDOWN -> [ret |-> FALSE, calls |-> << >>]
      [] command.type = UPDATE ->
            [ret |-> TRUE, calls |-> <<UpdateLayout(command)>>]
      [] OTHER -> [ret |-> TRUE, calls |-> << >>]

\* QtRenderer::ExecCommand: what it returns and the calls it makes to the
\* window manager.
ExecCommand(command) ==
    CASE command.type = NOOP -> [ret |-> TRUE, calls |-> << >>]
      [] command.type = SHUTDOWN -> [ret |-> FALSE, calls |-> << >>]
      [] command.type = UPDATE ->
            IF ~command.visible
            THEN [ret |-> TRUE, calls |-> <<HideAllWindows>>]
            ELSE [ret |-> TRUE, calls |-> <<UpdateLayout(command)>>]
      [] OTHER -> [ret |-> TRUE, calls |-> << >>]

----------------------------------------------------------------------------
(* The state machine: one action per host callback.  The host calls the     *)
(* engine from its event loop, one callback at a time; cb keeps what the    *)
(* callback did until the host's loop takes the next event.                 *)

PropertyKeys ==
    { kMozcEngineProperties[i].key : i \in 1..kMozcEnginePropertiesSize }
    \cup ToolKeys \cup {"Unknown.Property"}

\* Row indexes the host reports a click on: 0 .. the length of the longest
\* list, which is past the end of every list.
ClickIndexes == 0..2

Engine ==
    [mode |-> current_composition_mode_, ids |-> unique_candidate_ids_,
     props |-> prop_state, icon |-> prop_icon, pm |-> preedit_method_,
     sync |-> last_sync_time_, preedit |-> host_preedit,
     table |-> host_table, aux |-> host_aux, ret |-> FALSE,
     log |-> << >>, depth |-> 0, trunc |-> FALSE]

Call(op, release, translated, turnOn, index, name, state) ==
    [op |-> op, release |-> release, translated |-> translated,
     turnOn |-> turnOn, index |-> index, name |-> name, state |-> state]

NoCall == Call("", FALSE, FALSE, FALSE, 0, "", "")

\* The host's event loop is waiting for the next event.
IdleCb ==
    [phase |-> "idle", call |-> NoCall, ret |-> FALSE, log |-> << >>,
     pre |-> [Engine EXCEPT !.mode = DIRECT, !.ids = << >>,
                            !.props = << >>, !.icon = "", !.pm = ROMAN,
                            !.sync = 0, !.preedit = HiddenPreedit,
                            !.table = HiddenTable, !.aux = HiddenAux]]

\* The callback `call` ends in the engine state x: "returned" when it
\* returns to the host, "running" when it is still nested in session calls
\* at depth MaxDepth.
Finish(call, x) ==
    /\ current_composition_mode_' = x.mode
    /\ unique_candidate_ids_' = x.ids
    /\ prop_state' = x.props
    /\ prop_icon' = x.icon
    /\ preedit_method_' = x.pm
    /\ last_sync_time_' = x.sync
    /\ host_preedit' = x.preedit
    /\ host_table' = x.table
    /\ host_aux' = x.aux
    /\ cb' = [phase |-> IF x.trunc THEN "running" ELSE "returned",
              call |-> call, ret |-> x.ret, log |-> x.log, pre |-> Engine]
    /\ focus_out_syncs' =
           IF call.op = "FocusOut"
              /\ \E i \in DOMAIN x.log : x.log[i].k = "SyncData"
           THEN Append(focus_out_syncs, now)
           ELSE focus_out_syncs
    /\ UNCHANGED <<os_chromeos, menu_order, prop_mozc_tool_, now, ticks,
                   harness, renderer>>

Idle == alive /\ cb.phase = "idle"

\* The engine after construction, for the table of this build.
Constructed ==
    /\ os_chromeos \in BOOLEAN
    /\ prop_mozc_tool_ \in IF os_chromeos THEN {FALSE} ELSE BOOLEAN
    /\ alive = TRUE
    /\ now = 1
    /\ ticks = 0
    /\ last_sync_time_ = now
    \* kMozcEngineInitialCompositionMode is one of the modes of the menu
    /\ current_composition_mode_ \in CompositionModes
    /\ preedit_method_ = ROMAN
    /\ unique_candidate_ids_ = << >>
    /\ prop_state = [i \in 1..kMozcEnginePropertiesSize |->
                        IF kMozcEngineProperties[i].composition_mode
                               = current_composition_mode_
                        THEN PROP_STATE_CHECKED ELSE PROP_STATE_UNCHECKED]
    /\ prop_icon \in { GetIconPath(kMozcEngineProperties[i].icon) :
                         i \in { j \in 1..kMozcEnginePropertiesSize :
                                   kMozcEngineProperties[j].composition_mode
                                       = current_composition_mode_ } }
    /\ host_preedit = HiddenPreedit
    /\ host_table = HiddenTable
    /\ host_aux = HiddenAux
    /\ cb = IdleCb
    /\ focus_out_syncs = << >>
    /\ harness = HarnessStart
    /\ renderer = << >>

\* The table lists DIRECT, HIRAGANA, FULL_KATAKANA in this order.
Init ==
    /\ menu_order = [i \in 1..Len(RadioItems) |-> i]
    /\ Constructed

\* The table lists its items in any order.
InitMenu ==
    /\ menu_order \in MenuOrders
    /\ Constructed

DoCandidateClicked ==
    /\ Idle
    /\ \E index \in ClickIndexes :
         \E x \in CandidateClicked(Engine, index) :
            /\ Finish(Call("CandidateClicked", FALSE, FALSE, FALSE, index,
                           "", ""), x)
            /\ UNCHANGED alive

DoDisable ==
    /\ Idle
    /\ \E x \in Disable(Engine) :
         /\ Finish(Call("Disable", FALSE, FALSE, FALSE, 0, "", ""), x)
         /\ UNCHANGED alive

DoEnable ==
    /\ Idle
    /\ \E x \in Enable(Engine) :
         /\ Finish(Call("Enable", FALSE, FALSE, FALSE, 0, "", ""), x)
         /\ UNCHANGED alive

DoFocusIn ==
    /\ Idle
    /\ \E x \in FocusIn(Engine) :
         /\ Finish(Call("FocusIn", FALSE, FALSE, FALSE, 0, "", ""), x)
         /\ UNCHANGED alive

DoFocusOut ==
    /\ Idle
    /\ \E x \in FocusOut(Engine) :
         /\ Finish(Call("FocusOut", FALSE, FALSE, FALSE, 0, "", ""), x)
         /\ UNCHANGED alive

DoReset ==
    /\ Idle
    /\ \E x \in Reset(Engine) :
         /\ Finish(Call("Reset", FALSE, FALSE, FALSE, 0, "", ""), x)
         /\ UNCHANGED alive

DoProcessKeyEvent ==
    /\ Idle
    /\ \E release \in BOOLEAN, translated \in BOOLEAN, turnOn \in BOOLEAN :
         \E x \in ProcessKeyEvent(Engine, release, translated, turnOn) :
            /\ Finish(Call("ProcessKeyEvent", release, translated, turnOn, 0,
                           "", ""), x)
            /\ UNCHANGED alive

DoPropertyActivate ==
    /\ Idle
    /\ \E property_name \in PropertyKeys, property_state \in PropStates :
         \E x \in PropertyActivate(Engine, property_name, property_state) :
            /\ Finish(Call("PropertyActivate", FALSE, FALSE, FALSE, 0,
                           property_name, property_state), x)
            /\ UNCHANGED alive

\* ~MozcEngine
DoDestroy ==
    /\ Idle
    /\ Finish(Call("~MozcEngine", FALSE, FALSE, FALSE, 0, "", ""),
              SyncData(Engine, TRUE))
    /\ alive' = FALSE

\* UpdatePreedit, as UpdateAll calls it for an Output of the session; the
\* Output is kept as the first entry of the log.
DoUpdatePreedit ==
    /\ Idle
    /\ \E output \in PreeditOutputs :
             /\ Finish(Call("UpdatePreedit", FALSE, FALSE, FALSE, 0, "", ""),
                       UpdatePreedit(Emit(Engine, Ev("Output", "", 0, "",
                                                     TRUE, output)),
                                     output))
             /\ UNCHANGED alive

\* ConfigValueChanged: the arguments are kept as the first entry of the
\* log (section, name and value in t, m and out).
DoUpdateConfig ==
    /\ Idle
    /\ \E section \in ConfigSections, name \in ConfigNames,
          gvalue \in GValues :
         \E x \in UpdateConfig(Emit(Engine, Ev("ConfigValueChanged", section,
                                               0, name, TRUE, gvalue)),
                                section, name, gvalue) :
            /\ Finish(Call("UpdateConfig", FALSE, FALSE, FALSE, 0, "", ""),
                      x)
            /\ alive' = (\A i \in DOMAIN x.log : x.log[i].k # "abort")

\* One pass of the loop of main over test_cases: source is the label of
\* the case, valid is what IsValidSourceSentence says of it, input its
\* normalized reading and output what the session's last answer holds.
DoTestCase ==
    /\ harness.phase = "next"
    /\ \E source \in SourceLabels, valid \in BOOLEAN, input \in Readings,
          output \in LastOutputs :
         LET scores == FindOrInsert(harness.scores, source)
             skipped == scores[source] >= max_case_for_source \/ ~valid
             r == IF skipped
                  THEN [ok |-> FALSE, g |-> [ok |-> FALSE, keys |-> << >>],
                        log |-> << >>]
                  ELSE CalculateBLEU(input, output)
         IN  harness' =
                 [phase |-> "done",
                  scores |-> IF r.ok THEN [scores EXCEPT ![source] = @ + 1]
                             ELSE scores,
                  printed |-> << >>,
                  unreverted |-> Unreverted(harness.unreverted, r.log),
                  pending |-> harness.unreverted,
                  input |-> input, skipped |-> skipped, ok |-> r.ok,
                  g |-> r.g, log |-> r.log]
    /\ UNCHANGED <<engine_vars, renderer>>

\* ++test_case: the loop goes on to the next test case.
NextTestCase ==
    /\ harness.phase = "done"
    /\ harness' = [HarnessStart EXCEPT !.scores = harness.scores,
                                       !.unreverted = harness.unreverted]
    /\ UNCHANGED <<engine_vars, renderer>>

\* test_case->source is nullptr: the loop over test_cases has ended and
\* main prints the mean of every key of scores, then returns 0, unless a
\* CHECK ends the program ("abort").
DoReport ==
    /\ harness.phase = "next"
    /\ LET r == ReportFrom(harness.scores, 1, << >>)
       IN  harness' = [harness EXCEPT
                          !.phase = IF r.aborted THEN "abort" ELSE "exit",
                          !.printed = r.printed]
    /\ UNCHANGED <<engine_vars, renderer>>

\* UpdateCandidates, as UpdateAll calls it for an Output of the session;
\* the Output is kept as the first entry of the log.
DoUpdateCandidates ==
    /\ Idle
    /\ \E output \in CandidateOutputs :
         /\ Finish(Call("UpdateCandidates", FALSE, FALSE, FALSE, 0, "", ""),
                   UpdateCandidates(Emit(Engine, Ev("Output", "", 0, "",
                                                    TRUE, output)),
                                    output))
         /\ UNCHANGED alive

\* The callback has returned and the host's event loop takes the next event.
HostLoop ==
    /\ alive
    /\ cb.phase = "returned"
    /\ cb' = IdleCb
    /\ UNCHANGED <<os_chromeos, menu_order, prop_mozc_tool_, alive, now, ticks,
                   last_sync_time_, current_composition_mode_,
                   preedit_method_, unique_candidate_ids_, prop_state,
                   prop_icon, host_preedit, host_table, host_aux,
                   focus_out_syncs, harness, renderer>>

\* The system clock moves: by a second, by just under or exactly the sync
\* interval, or back by a second.
Tick ==
    /\ Idle
    /\ ticks < MaxTicks
    /\ \E t \in {now + 1, now + kSyncDataInterval - 1,
                 now + kSyncDataInterval, now - 1} :
         /\ t >= 0
         /\ now' = t
    /\ ticks' = ticks + 1
    /\ UNCHANGED <<os_chromeos, menu_order, prop_mozc_tool_, alive, last_sync_time_,
                   current_composition_mode_, preedit_method_,
                   unique_candidate_ids_, prop_state, prop_icon,
                   host_preedit, host_table, host_aux, cb,
                   focus_out_syncs, harness, renderer>>

Next ==
    \/ DoCandidateClicked
    \/ DoDisable
    \/ DoEnable
    \/ DoFocusIn
    \/ DoFocusOut
    \/ DoReset
    \/ DoProcessKeyEvent
    \/ DoPropertyActivate
    \/ DoDestroy
    \/ HostLoop

\* The callbacks while the clock stands still.
Spec == Init /\ [][Next]_vars

\* The callbacks that revert the session or read the clock, while the
\* clock moves.
NextSync ==
    \/ DoDisable
    \/ DoFocusIn
    \/ DoFocusOut
    \/ DoReset
    \/ DoDestroy
    \/ HostLoop
    \/ Tick

SpecSync == Init /\ [][NextSync]_vars

\* The activation of properties, for every order of the radio menu.
NextMenu ==
    \/ DoPropertyActivate
    \/ HostLoop

SpecMenu == InitMenu /\ [][NextMenu]_vars

\* The configuration changes the host reports.
NextConfig ==
    \/ DoUpdateConfig
    \/ HostLoop

SpecConfig == Init /\ [][NextConfig]_vars

\* The quality test program; the engine is not part of that program.
NextQuality ==
    \/ DoTestCase
    \/ NextTestCase
    \/ DoReport

InitQuality ==
    /\ Init
    /\ ~os_chromeos
    /\ ~prop_mozc_tool_
    /\ current_composition_mode_ = DIRECT

SpecQuality == InitQuality /\ [][NextQuality]_vars

\* The Qt renderer executes one command: the receiver loop hands it to
\* ExecCommand.
DoExecCommand ==
    /\ Len(renderer) < MaxCommands
    /\ \E command \in RendererCommands :
         LET r == ExecCommand(command)
         IN  renderer' = Append(renderer, [command |-> command,
                                           ret |-> r.ret, calls |-> r.calls])
    /\ UNCHANGED <<engine_vars, harness>>

\* The rendering of one candidate list on the engine as constructed.
NextCandidates == DoUpdateCandidates

SpecCandidates == Init /\ [][NextCandidates]_vars

\* The Qt renderer; the engine is not part of that program.
NextRenderer == DoExecCommand

SpecRenderer == Init /\ [][NextRenderer]_vars

\* The rendering of one preedit on the engine as constructed.
NextPreedit == DoUpdatePreedit

SpecPreedit == Init /\ [][NextPreedit]_vars

----------------------------------------------------------------------------
(* Properties *)

\* The callback named op has run (and has returned, or is still running at
\* depth MaxDepth).
Ran(op) == cb.phase # "idle" /\ cb.call.op = op
Returned(op) == cb.phase = "returned" /\ cb.call.op = op

SessionCalls == { i \in DOMAIN cb.log : cb.log[i].k \in SessionKinds }
HostCalls == { i \in DOMAIN cb.log : cb.log[i].k \in HostKinds }
CallsOf(kind) == { i \in DOMAIN cb.log : cb.log[i].k = kind }
CommandsOf(type) ==
    { i \in DOMAIN cb.log : cb.log[i].k = "SendCommand" /\ cb.log[i].t = type }

\* The callback made no call to the host and the host shows what it showed.
HostUntouched ==
    /\ HostCalls = {}
    /\ host_preedit = cb.pre.preedit
    /\ host_table = cb.pre.table
    /\ host_aux = cb.pre.aux

PropertyTreeUntouched ==
    prop_state = cb.pre.props /\ prop_icon = cb.pre.icon

\* The host calls UpdateResult, UpdatePreedit and UpdateCandidates make for
\* an Output, in order.
RenderCalls(out) ==
    (IF out.has_result THEN <<"commit_text">> ELSE << >>)
    \o (IF out.has_preedit THEN <<"update_preedit_text">>
        ELSE <<"hide_preedit_text">>)
    \o (IF ~out.has_candidates
        THEN <<"hide_auxiliary_text", "hide_lookup_table">>
        ELSE IF out.candidates.has_focused_index
        THEN <<"update_lookup_table", "update_auxiliary_text">>
        ELSE <<"update_lookup_table", "hide_auxiliary_text">>)

\* The calls that follow call i of the log are the rendering of out.
RenderedAfter(i, out) ==
    LET calls == RenderCalls(out)
    IN  /\ Len(cb.log) >= i + Len(calls)
        /\ \A j \in 1..Len(calls) : cb.log[i + j].k = calls[j]

\* C1: ProcessKeyEvent of a release event returns not-consumed, calls
\* neither the session nor the host, and leaves compositionMode,
\* candidateIdList, preeditMethod and lastSyncTimestamp unchanged.
C1_ReleaseIsRejected ==
    (Ran("ProcessKeyEvent") /\ cb.call.release) =>
        /\ cb.phase = "returned"
        /\ cb.ret = FALSE
        /\ SessionCalls = {}
        /\ HostUntouched
        /\ current_composition_mode_ = cb.pre.mode
        /\ unique_candidate_ids_ = cb.pre.ids
        /\ preedit_method_ = cb.pre.pm
        /\ last_sync_time_ = cb.pre.sync

\* A release event arrived while a composition with candidates was shown,
\* in a build that asks the session for its configuration at every key.
C1_Witness ==
    /\ Returned("ProcessKeyEvent") /\ cb.call.release
    /\ cb.call.translated /\ cb.call.turnOn
    /\ cb.pre.mode # DIRECT
    /\ cb.pre.table.visible
    /\ os_chromeos

DirectPress ==
    /\ Ran("ProcessKeyEvent")
    /\ ~cb.call.release
    /\ cb.call.translated
    /\ cb.pre.mode = DIRECT

\* C2 as stated: in DIRECT mode a translated key press that does not turn
\* the engine on is rejected without any session call and any host update;
\* one that does is sent with SendKey exactly once.
C2_Original ==
    DirectPress =>
        IF cb.call.turnOn
        THEN Cardinality(CallsOf("SendKey")) = 1
        ELSE /\ cb.ret = FALSE
             /\ SessionCalls = {}
             /\ HostUntouched

\* C2 amended: the rejected key reaches neither SendKey nor SendCommand and
\* no host update is made; the only session call is the GetConfig an
\* OS_CHROMEOS build makes at every key press.
C2_DirectFastReject ==
    DirectPress =>
        IF cb.call.turnOn
        THEN Cardinality(CallsOf("SendKey")) = 1
        ELSE /\ cb.phase = "returned"
             /\ cb.ret = FALSE
             /\ CallsOf("SendKey") = {}
             /\ CallsOf("SendCommand") = {}
             /\ HostUntouched
             /\ IF os_chromeos
                THEN Len(cb.log) = 1 /\ cb.log[1].k = "GetConfig"
                ELSE cb.log = << >>

\* Both cases of C2 are reached: this is the rejected key, with a preedit
\* method other than the initial one so that the key translation used it.
C2_Witness ==
    /\ DirectPress /\ ~cb.call.turnOn
    /\ cb.pre.pm = KANA
    /\ ~os_chromeos

TranslateFailed ==
    /\ Ran("ProcessKeyEvent")
    /\ ~cb.call.release
    /\ ~cb.call.translated

\* C3 as stated: when Translate fails the event is not consumed, SendKey is
\* not called, and the engine state and the host are unchanged.
C3_Original ==
    TranslateFailed =>
        /\ cb.ret = FALSE
        /\ CallsOf("SendKey") = {}
        /\ HostUntouched
        /\ PropertyTreeUntouched
        /\ current_composition_mode_ = cb.pre.mode
        /\ unique_candidate_ids_ = cb.pre.ids
        /\ preedit_method_ = cb.pre.pm
        /\ last_sync_time_ = cb.pre.sync

\* C3 amended: preedit_method_ is unchanged too unless the build is
\* OS_CHROMEOS, which has by then replaced it by what GetConfig answered.
C3_TranslateFailureIsRejected ==
    TranslateFailed =>
        /\ cb.phase = "returned"
        /\ cb.ret = FALSE
        /\ CallsOf("SendKey") = {}
        /\ CallsOf("SendCommand") = {}
        /\ HostUntouched
        /\ PropertyTreeUntouched
        /\ current_composition_mode_ = cb.pre.mode
        /\ unique_candidate_ids_ = cb.pre.ids
        /\ last_sync_time_ = cb.pre.sync
        /\ IF os_chromeos
           THEN /\ Len(cb.log) = 1 /\ cb.log[1].k = "GetConfig"
                /\ (~cb.log[1].ok => preedit_method_ = cb.pre.pm)
           ELSE cb.log = << >> /\ preedit_method_ = cb.pre.pm

\* Translate failed in a composing mode with candidates shown.
C3_Witness ==
    /\ TranslateFailed
    /\ cb.pre.mode = HIRAGANA
    /\ cb.pre.ids # << >>
    /\ cb.call.turnOn

SendKeyFailed ==
    /\ Ran("ProcessKeyEvent")
    /\ \E i \in CallsOf("SendKey") : ~cb.log[i].ok

\* C4: when SendKey fails the event is not consumed, nothing is rendered,
\* compositionMode and candidateIdList keep their values, and the engine
\* goes on taking callbacks.
C4_SendKeyFailureIsNotFatal ==
    SendKeyFailed =>
        /\ cb.ret = FALSE
        /\ HostUntouched
        /\ current_composition_mode_ = cb.pre.mode
        /\ unique_candidate_ids_ = cb.pre.ids
        /\ alive
        /\ cb.phase = "returned"
        /\ ENABLED HostLoop

\* SendKey failed while candidates were shown.
C4_Witness ==
    /\ SendKeyFailed
    /\ cb.pre.ids # << >>
    /\ cb.pre.preedit.visible

SendKeySucceeded ==
    /\ Ran("ProcessKeyEvent")
    /\ \E i \in CallsOf("SendKey") : cb.log[i].ok

\* C5: when SendKey succeeds its Output is rendered to the host right away,
\* and the callback returns the Output's consumed flag.
C5_ConsumedAsOutputDeclares ==
    SendKeySucceeded =>
        \A i \in CallsOf("SendKey") :
            /\ RenderedAfter(i, cb.log[i].out)
            /\ (cb.phase = "returned" => cb.ret = cb.log[i].out.consumed)

\* A key was sent and answered with an Output that is not consumed although
\* it carries a result, candidates and a change of mode.
C5_Witness ==
    /\ Returned("ProcessKeyEvent")
    /\ \E i \in CallsOf("SendKey") :
          /\ cb.log[i].ok
          /\ ~cb.log[i].out.consumed
          /\ cb.log[i].out.has_result
          /\ cb.log[i].out.has_candidates
          /\ cb.log[i].out.has_mode
          /\ cb.log[i].out.mode # cb.pre.mode

Commands == CallsOf("SendKey") \cup CallsOf("SendCommand")

\* The first SendKey or SendCommand of the callback, the one the operation
\* itself sends, failed.
OwnCommandFailed ==
    /\ cb.phase # "idle"
    /\ \E i \in Commands :
          /\ \A j \in Commands : i <= j
          /\ ~cb.log[i].ok

RenderKinds ==
    {"commit_text", "update_preedit_text", "hide_preedit_text",
     "update_lookup_table", "hide_lookup_table", "update_auxiliary_text",
     "hide_auxiliary_text"}

\* C6: when the SendKey or SendCommand of an operation fails, compositionMode,
\* candidateIdList, preeditMethod and lastSyncTimestamp are after the
\* operation what they were before it (preeditMethod but for a GetConfig
\* that succeeded before the command) and no Output is rendered to the host.
C6_Original ==
    OwnCommandFailed =>
        /\ current_composition_mode_ = cb.pre.mode
        /\ unique_candidate_ids_ = cb.pre.ids
        /\ \/ preedit_method_ = cb.pre.pm
           \/ \E g \in CallsOf("GetConfig") : cb.log[g].ok
        /\ last_sync_time_ = cb.pre.sync
        /\ \A i \in DOMAIN cb.log : cb.log[i].k \notin RenderKinds

BadClick ==
    /\ Ran("CandidateClicked")
    /\ \/ cb.call.index >= Len(cb.pre.ids)
       \/ cb.pre.ids[cb.call.index + 1] = kBadCandidateId

\* C7: every SELECT_CANDIDATE carries the id stored for the clicked row, which
\* is the id of that row of the list the host shows and never the sentinel; a
\* click past the end of the list or on a row without id does nothing.
C7_SelectCandidate ==
    /\ \A i \in CommandsOf("SELECT_CANDIDATE") :
          /\ Ran("CandidateClicked")
          /\ i = 1
          /\ Cardinality(CommandsOf("SELECT_CANDIDATE")) = 1
          /\ cb.call.index < Len(cb.pre.ids)
          /\ cb.log[i].id = cb.pre.ids[cb.call.index + 1]
          /\ cb.log[i].id # kBadCandidateId
          /\ cb.pre.table.visible
          /\ cb.call.index < Len(cb.pre.table.candidates.candidate)
          /\ cb.pre.table.candidates.candidate[cb.call.index + 1].has_id
          /\ cb.pre.table.candidates.candidate[cb.call.index + 1].id
                 = cb.log[i].id
    /\ BadClick =>
          /\ cb.phase = "returned"
          /\ cb.log = << >>
          /\ HostUntouched
          /\ PropertyTreeUntouched
          /\ current_composition_mode_ = cb.pre.mode
          /\ unique_candidate_ids_ = cb.pre.ids
          /\ preedit_method_ = cb.pre.pm
          /\ last_sync_time_ = cb.pre.sync

\* A row with an id was clicked in a list that also has a row without id.
C7_Witness ==
    /\ Returned("CandidateClicked")
    /\ CommandsOf("SELECT_CANDIDATE") # {}
    /\ \E j \in DOMAIN cb.pre.ids : cb.pre.ids[j] = kBadCandidateId

\* C8: unique_candidate_ids_ has one entry per row of the list the host
\* shows, the row's id or the sentinel when the row has none, and is empty
\* when the list is hidden.
C8_IdsMatchRenderedList ==
    IF host_table.visible
    THEN /\ Len(unique_candidate_ids_) = Len(host_table.rows)
         /\ Len(unique_candidate_ids_) = Len(host_table.candidates.candidate)
         /\ \A i \in DOMAIN unique_candidate_ids_ :
               LET candidate == host_table.candidates.candidate[i]
               IN  /\ host_table.rows[i].text = candidate.value
                   /\ unique_candidate_ids_[i] =
                          IF candidate.has_id THEN candidate.id ELSE -1
    ELSE unique_candidate_ids_ = << >>

\* A list with a row without id was hidden again by the next Output.
C8_Witness ==
    /\ cb.phase = "returned"
    /\ ~host_table.visible
    /\ \E j \in DOMAIN cb.pre.ids : cb.pre.ids[j] = kBadCandidateId
    /\ \E j \in DOMAIN cb.pre.ids : cb.pre.ids[j] # kBadCandidateId

\* The call of the log in which the SetCompositionMode entered at call i
\* returns, or the last call of the log when it has not returned.
ReturnOf(i) ==
    LET later == { j \in CallsOf("return SetCompositionMode") :
                     j > i /\ cb.log[j].id = cb.log[i].id }
    IN  IF later = {} THEN Len(cb.log)
        ELSE CHOOSE j \in later : \A k \in later : j <= k

EnteredDirect ==
    { i \in CallsOf("call SetCompositionMode") : cb.log[i].m = DIRECT }

\* C9: SetCompositionMode(DIRECT) sends SUBMIT before anything is rendered,
\* and sends no REVERT before it returns.
C9_DirectSubmits ==
    \A i \in EnteredDirect :
        /\ i < Len(cb.log)
        /\ cb.log[i + 1].k = "SendCommand"
        /\ cb.log[i + 1].t = "SUBMIT"
        /\ \A j \in (i + 1)..ReturnOf(i) :
              ~(cb.log[j].k = "SendCommand" /\ cb.log[j].t = "REVERT")

\* SetCompositionMode(DIRECT) ran inside a callback that had sent REVERT, and
\* the Output of its SUBMIT was rendered and switched the mode again.
C9_Witness ==
    /\ cb.phase = "returned"
    /\ CommandsOf("REVERT") # {}
    /\ \E i \in EnteredDirect :
          /\ cb.log[i + 1].ok
          /\ cb.log[i + 1].out.has_preedit
          /\ \E j \in CallsOf("call SetCompositionMode") :
                j > i /\ j < ReturnOf(i)

\* C10: when SetCompositionMode returns, current_composition_mode_ is the
\* requested mode, and every SetCompositionMode of a callback that has
\* returned has returned.
C10_ModeIsRequestedMode ==
    /\ \A j \in CallsOf("return SetCompositionMode") :
          cb.log[j].t = cb.log[j].m
    /\ cb.phase = "returned" =>
          \A i \in CallsOf("call SetCompositionMode") :
              /\ cb.log[ReturnOf(i)].k = "return SetCompositionMode"
              /\ cb.log[ReturnOf(i)].m = cb.log[i].m

\* SetCompositionMode(DIRECT) returned after its SUBMIT was answered with a
\* third mode, and a SetCompositionMode returned whose command had failed.
C10_Witness ==
    /\ cb.phase = "returned"
    /\ \E i \in EnteredDirect :
          /\ cb.log[i].t # DIRECT
          /\ cb.log[i + 1].ok
          /\ cb.log[i + 1].out.has_mode
          /\ cb.log[i + 1].out.mode \notin {DIRECT, cb.log[i].t}
          /\ cb.log[ReturnOf(i)].k = "return SetCompositionMode"
    /\ \E i \in CallsOf("call SetCompositionMode") : ~cb.log[i + 1].ok

----------------------------------------------------------------------------
(* The debounced sync *)

Abs(n) == IF n < 0 THEN -n ELSE n

\* C11: of any two FocusOut calls whose clock readings are less than
\* kSyncDataInterval (300 s) apart, whatever callbacks other than the
\* destructor run in between, at most one calls the session's SyncData:
\* the readings of any two FocusOut calls that synced are at least the
\* interval apart.
C11_FocusOutSyncsAreDebounced ==
    \A i, j \in DOMAIN focus_out_syncs :
        i < j =>
            Abs(focus_out_syncs[j] - focus_out_syncs[i]) >= kSyncDataInterval

\* A FocusOut synced, the clock moved on by less than the interval, and a
\* second FocusOut has run.
C11_Witness ==
    /\ Returned("FocusOut")
    /\ Len(focus_out_syncs) = 1
    /\ now > focus_out_syncs[1]
    /\ now - focus_out_syncs[1] < kSyncDataInterval

\* C12: the destructor calls the session's SyncData exactly once and sets
\* last_sync_time_ to the clock's reading, whatever time has passed since
\* the previous sync: none at all, or a negative time when the clock was
\* set back.
C12_DestructorForcesSync ==
    Ran("~MozcEngine") =>
        /\ Cardinality(CallsOf("SyncData")) = 1
        /\ SessionCalls = CallsOf("SyncData")
        /\ last_sync_time_ = now
        /\ cb.phase = "returned"

\* The destructor ran when the clock read less than last_sync_time_.
C12_Witness ==
    /\ Ran("~MozcEngine")
    /\ now < cb.pre.sync
    /\ CallsOf("SyncData") # {}

----------------------------------------------------------------------------
(* Enable *)

\* C13: Enable calls the session's EnsureConnection, then GetConfig (the
\* refresh of preedit_method_), then sends exactly one REVERT command, in
\* that order; the REVERT is sent whatever EnsureConnection and GetConfig
\* answered and whatever current_composition_mode_ was.
C13_EnableOrder ==
    Ran("Enable") =>
        /\ Len(cb.log) >= 3
        /\ cb.log[1].k = "EnsureConnection"
        /\ cb.log[2].k = "GetConfig"
        /\ cb.log[3].k = "SendCommand" /\ cb.log[3].t = "REVERT"
        /\ CallsOf("EnsureConnection") = {1}
        /\ CallsOf("GetConfig") = {2}
        /\ CommandsOf("REVERT") = {3}

\* Enable ran outside DIRECT with no connection and no configuration.
C13_Witness ==
    /\ Returned("Enable")
    /\ cb.pre.mode = HIRAGANA
    /\ Len(cb.log) >= 3
    /\ ~cb.log[1].ok
    /\ ~cb.log[2].ok
    /\ cb.log[3].t = "REVERT"

\* The mode the session reported in answer to Enable's REVERT, if any.
EnableReportsMode ==
    /\ Len(cb.log) >= 3
    /\ cb.log[3].ok
    /\ cb.log[3].out.has_mode

\* C14 as stated, for an Enable whose REVERT command succeeded: when Enable
\* returns, current_composition_mode_ is the mode the session reported, and
\* DIRECT when it reported none, whatever the mode was before.
C14_Original ==
    (Returned("Enable") /\ Len(cb.log) >= 3 /\ cb.log[3].ok) =>
        current_composition_mode_ =
            IF cb.log[3].out.has_mode THEN cb.log[3].out.mode ELSE DIRECT

\* C14: when Enable returns, current_composition_mode_ is the mode of the
\* Output of the REVERT command when that command succeeded and its Output
\* has a mode; otherwise it is the mode it was before Enable.
C14_EnableKeepsUnreportedMode ==
    Returned("Enable") =>
        current_composition_mode_ =
            IF EnableReportsMode THEN cb.log[3].out.mode ELSE cb.pre.mode

\* Enable returned outside DIRECT after a REVERT whose Output has no mode.
C14_Witness ==
    /\ Returned("Enable")
    /\ Len(cb.log) >= 3
    /\ cb.log[3].ok
    /\ ~cb.log[3].out.has_mode
    /\ cb.pre.mode = HIRAGANA
    /\ current_composition_mode_ = HIRAGANA

----------------------------------------------------------------------------
(* Disable, FocusOut and Reset *)

Reverting == Ran("Disable") \/ Ran("FocusOut") \/ Ran("Reset")

SyncIsDue == now - cb.pre.sync >= kSyncDataInterval

\* C15: Disable, FocusOut and Reset each send exactly one REVERT command,
\* as their first call, and render its Output when the command succeeded
\* (and render nothing when it failed).  FocusOut then attempts the
\* debounced sync, also when the REVERT failed: when the interval has
\* passed, its last call is the session's SyncData.  Disable and Reset
\* never call SyncData.
C15_RevertThenSync ==
    Reverting =>
        /\ Len(cb.log) >= 1
        /\ cb.log[1].k = "SendCommand" /\ cb.log[1].t = "REVERT"
        /\ CommandsOf("REVERT") = {1}
        /\ cb.log[1].ok => RenderedAfter(1, cb.log[1].out)
        /\ ~cb.log[1].ok =>
              \A i \in DOMAIN cb.log : cb.log[i].k \notin RenderKinds
        /\ (Ran("Disable") \/ Ran("Reset")) =>
              /\ CallsOf("SyncData") = {}
              /\ last_sync_time_ = cb.pre.sync
        /\ Returned("FocusOut") =>
              IF SyncIsDue
              THEN CallsOf("SyncData") = {Len(cb.log)}
                   /\ last_sync_time_ = now
              ELSE CallsOf("SyncData") = {}
                   /\ last_sync_time_ = cb.pre.sync

\* FocusOut synced after a REVERT that failed.
C15_Witness ==
    /\ Returned("FocusOut")
    /\ ~cb.log[1].ok
    /\ CallsOf("SyncData") # {}

----------------------------------------------------------------------------
(* PropertyActivate *)

ModeKeys ==
    { kMozcEngineProperties[i].key : i \in 1..kMozcEnginePropertiesSize }

Unchecking ==
    Ran("PropertyActivate") /\ cb.call.state # PROP_STATE_CHECKED

\* The key is one of the tool menu, and the build has that menu.
ToolActivated == prop_mozc_tool_ /\ cb.call.name \in ToolKeys

\* C16 as stated: PropertyActivate with a state other than checked makes
\* no session call and leaves current_composition_mode_ and every radio
\* item unchanged, for every property key, the tool keys included.
C16_Original ==
    Unchecking =>
        /\ SessionCalls = {}
        /\ current_composition_mode_ = cb.pre.mode
        /\ PropertyTreeUntouched

\* C16: PropertyActivate with a state other than checked leaves
\* current_composition_mode_, every radio item, the menu icon and the host
\* unchanged, and sends no command to the session; its only possible
\* session call is one LaunchTool, made exactly when the key is a key of
\* the tool menu and the build has that menu.
C16_UncheckedOnlyLaunchesTools ==
    Unchecking =>
        /\ cb.phase = "returned"
        /\ current_composition_mode_ = cb.pre.mode
        /\ PropertyTreeUntouched
        /\ HostUntouched
        /\ SessionCalls = CallsOf("LaunchTool")
        /\ Cardinality(CallsOf("LaunchTool")) = IF ToolActivated THEN 1 ELSE 0
        /\ \A i \in CallsOf("LaunchTool") : cb.log[i].t = cb.call.name

\* The radio item of another mode was activated with state unchecked.
C16_Witness ==
    /\ Returned("PropertyActivate")
    /\ cb.call.state = PROP_STATE_UNCHECKED
    /\ cb.call.name = "CompositionMode.Hiragana"
    /\ cb.pre.mode = DIRECT

\* C17 as stated: PropertyActivate with a key that is neither a key of the
\* mode menu nor a tool key makes no session call, leaves
\* current_composition_mode_ and the state of every radio item unchanged
\* and pushes no property update to the host, also with state checked.
C17_Original ==
    (Ran("PropertyActivate") /\ cb.call.name \notin ModeKeys \cup ToolKeys) =>
        /\ SessionCalls = {}
        /\ current_composition_mode_ = cb.pre.mode
        /\ prop_state = cb.pre.props
        /\ CallsOf("update_property") = {}

\* The radio item with the activated key.
Activated(i) == kMozcEngineProperties[i].key = cb.call.name

RadioChecked ==
    /\ Returned("PropertyActivate")
    /\ cb.call.state = PROP_STATE_CHECKED
    /\ cb.call.name \in ModeKeys

\* C18 as stated: when PropertyActivate(key, checked) returns for a key of
\* the mode menu, the item with that key is checked and every other radio
\* item is unchecked, the menu icon is that item's icon and
\* current_composition_mode_ is that item's mode, whatever the state
\* before, the order of the items in the menu and the Outputs of the
\* session during the call.
C18_Original ==
    RadioChecked =>
        \A i \in 1..kMozcEnginePropertiesSize :
            IF Activated(i)
            THEN /\ prop_state[i] = PROP_STATE_CHECKED
                 /\ prop_icon = GetIconPath(kMozcEngineProperties[i].icon)
                 /\ current_composition_mode_
                        = kMozcEngineProperties[i].composition_mode
            ELSE prop_state[i] = PROP_STATE_UNCHECKED

----------------------------------------------------------------------------
(* ComposePreeditText *)

\* The preedit UpdatePreedit was given.
GivenSegments == cb.log[1].out.preedit.segment

RECURSIVE SumOfLengths(_, _)
SumOfLengths(segment, i) ==
    IF i > Len(segment) THEN 0
    ELSE segment[i].value_length + SumOfLengths(segment, i + 1)

RECURSIVE LengthOfValues(_, _)
LengthOfValues(segment, i) ==
    IF i > Len(segment) THEN 0
    ELSE Len(segment[i].value) + LengthOfValues(segment, i + 1)

IsUnderline(a) == a.type = "IBUS_ATTR_TYPE_UNDERLINE"
IsBackground(a) == a.type = "IBUS_ATTR_TYPE_BACKGROUND"
IsForeground(a) == a.type = "IBUS_ATTR_TYPE_FOREGROUND"
Underlines == SelectSeq(host_preedit.attrs, IsUnderline)
Backgrounds == SelectSeq(host_preedit.attrs, IsBackground)
Foregrounds == SelectSeq(host_preedit.attrs, IsForeground)

\* The underline ranges are [s_i, s_i + length_i) with s_1 = 0 and
\* s_(i+1) = s_i + length_i, length_i being the declared length.
UnderlinesAreContiguous ==
    /\ Len(Underlines) = Len(GivenSegments)
    /\ \A i \in DOMAIN Underlines :
          /\ Underlines[i].start = IF i = 1 THEN 0 ELSE Underlines[i - 1].end
          /\ Underlines[i].end
                 = Underlines[i].start + GivenSegments[i].value_length

\* C19 as stated: for every preedit, whatever the values and the declared
\* lengths of its segments, the sum of the lengths ComposePreeditText uses
\* is the length of the composed text, and the underline ranges are
\* contiguous from 0, so that they cover [0, length of the text) without
\* gap or overlap.
C19_Original ==
    Ran("UpdatePreedit") =>
        /\ SumOfLengths(GivenSegments, 1) = Len(host_preedit.text)
        /\ UnderlinesAreContiguous
        /\ Len(Underlines) > 0 =>
              Underlines[Len(Underlines)].end = Len(host_preedit.text)

\* C19: for every preedit the composed text is the concatenation of the
\* segment values, and the underline ranges are contiguous from 0 by the
\* declared lengths, so that they cover [0, sum of the declared lengths)
\* without gap or overlap; that sum is the length of the composed text
\* when every segment declares the length of its value.
C19_RangesTileDeclaredLengths ==
    Ran("UpdatePreedit") =>
        /\ Len(host_preedit.text) = LengthOfValues(GivenSegments, 1)
        /\ UnderlinesAreContiguous
        /\ Len(Underlines) > 0 =>
              Underlines[Len(Underlines)].end = SumOfLengths(GivenSegments, 1)
        /\ (\A i \in DOMAIN GivenSegments :
                GivenSegments[i].value_length = Len(GivenSegments[i].value))
             => SumOfLengths(GivenSegments, 1) = Len(host_preedit.text)

\* A preedit of two segments that declare the lengths of their values.
C19_Witness ==
    /\ Ran("UpdatePreedit")
    /\ Len(GivenSegments) = 2
    /\ \A i \in 1..2 :
          /\ GivenSegments[i].value_length = Len(GivenSegments[i].value)
          /\ GivenSegments[i].value_length > 0
    /\ Len(host_preedit.text) > 2

\* The positions of the HIGHLIGHT segments, in order.
RECURSIVE HighlightedFrom(_, _)
HighlightedFrom(segment, i) ==
    IF i > Len(segment) THEN << >>
    ELSE (IF segment[i].annotation = HIGHLIGHT THEN <<i>> ELSE << >>)
         \o HighlightedFrom(segment, i + 1)

SameRange(a, b) == a.start = b.start /\ a.end = b.end

\* C20: ComposePreeditText gives every segment exactly one underline range,
\* of style none, single or double for NONE, UNDERLINE or HIGHLIGHT; a
\* HIGHLIGHT segment also gets exactly one background and one foreground
\* colour range with the start and end of its underline range; a segment
\* that is not HIGHLIGHT gets no colour range.
C20_OneUnderlineAndColoursOnHighlight ==
    Ran("UpdatePreedit") =>
        LET highlighted == HighlightedFrom(GivenSegments, 1)
        IN  /\ Len(host_preedit.attrs)
                   = Len(Underlines) + Len(Backgrounds) + Len(Foregrounds)
            /\ Len(Underlines) = Len(GivenSegments)
            /\ \A i \in DOMAIN Underlines :
                  Underlines[i].value =
                      CASE GivenSegments[i].annotation = NONE ->
                               "IBUS_ATTR_UNDERLINE_NONE"
                        [] GivenSegments[i].annotation = UNDERLINE ->
                               "IBUS_ATTR_UNDERLINE_SINGLE"
                        [] GivenSegments[i].annotation = HIGHLIGHT ->
                               "IBUS_ATTR_UNDERLINE_DOUBLE"
            /\ Len(Backgrounds) = Len(highlighted)
            /\ Len(Foregrounds) = Len(highlighted)
            /\ \A k \in DOMAIN highlighted :
                  /\ SameRange(Backgrounds[k], Underlines[highlighted[k]])
                  /\ SameRange(Foregrounds[k], Underlines[highlighted[k]])
                  /\ Backgrounds[k].value = "0xD1EAFF"
                  /\ Foregrounds[k].value = "0x000000"

\* A preedit with a HIGHLIGHT segment after a segment that is not.
C20_Witness ==
    /\ Ran("UpdatePreedit")
    /\ Len(GivenSegments) = 2
    /\ GivenSegments[1].annotation = UNDERLINE
    /\ GivenSegments[1].value_length > 0
    /\ GivenSegments[2].annotation = HIGHLIGHT
    /\ GivenSegments[2].value_length > 0
    /\ Len(Backgrounds) = 1

\* The Output UpdatePreedit was given.
GivenOutput == cb.log[1].out

\* C21: the cursor position handed to the host with update_preedit_text
\* is the preedit's highlighted position when it has one, also when the
\* session's cursor differs from it, and the preedit's cursor otherwise;
\* for an Output without a preedit the position is 0 and the preedit is
\* hidden instead of updated.
C21_CursorPosition ==
    Ran("UpdatePreedit") =>
        IF GivenOutput.has_preedit
        THEN /\ CallsOf("update_preedit_text") # {}
             /\ host_preedit.visible
             /\ host_preedit.cursor_pos =
                   IF GivenOutput.preedit.has_highlighted_position
                   THEN GivenOutput.preedit.highlighted_position
                   ELSE GivenOutput.preedit.cursor
        ELSE /\ CursorPos(GivenOutput) = 0
             /\ CallsOf("update_preedit_text") = {}
             /\ ~host_preedit.visible

\* A preedit whose highlighted position and cursor are both there and
\* differ.
C21_Witness ==
    /\ Ran("UpdatePreedit")
    /\ GivenOutput.has_preedit
    /\ GivenOutput.preedit.has_highlighted_position
    /\ GivenOutput.preedit.highlighted_position = 2
    /\ GivenOutput.preedit.cursor = 1
    /\ host_preedit.cursor_pos = 2

----------------------------------------------------------------------------
(* The application of an Output *)

\* The calls of the log whose Output the callback applied with UpdateAll:
\* a SendKey or REVERT that succeeded, and every SELECT_CANDIDATE and SUBMIT.
AppliedOutputs ==
    { i \in DOMAIN cb.log :
        \/ cb.log[i].k = "SendKey" /\ cb.log[i].ok
        \/ cb.log[i].k = "SendCommand" /\ cb.log[i].t = "REVERT"
              /\ cb.log[i].ok
        \/ cb.log[i].k = "SendCommand"
              /\ cb.log[i].t \in {"SELECT_CANDIDATE", "SUBMIT"} }

LastApplied ==
    CHOOSE i \in AppliedOutputs : \A j \in AppliedOutputs : j <= i

\* C22: after an Output is applied, if it has candidates the lookup table
\* is shown and the auxiliary text is shown exactly when the candidates
\* have a focused index, reading "<focused index + 1>/<size>"; if it has
\* no candidates the lookup table and the auxiliary text are hidden and
\* unique_candidate_ids_ is empty, and a CandidateClicked that finds the
\* list hidden selects nothing.
C22_CandidateWindow ==
    /\ (cb.phase # "idle" /\ AppliedOutputs # {}) =>
          LET out == cb.log[LastApplied].out
          IN  IF out.has_candidates
              THEN /\ host_table.visible
                   /\ host_aux.visible = out.candidates.has_focused_index
                   /\ host_aux.visible =>
                         host_aux.text =
                             ToString(out.candidates.focused_index + 1)
                             \o "/" \o ToString(out.candidates.size)
                   /\ out.candidates = CandidatesFocused =>
                         host_aux.text = "2/5"
              ELSE /\ ~host_table.visible
                   /\ ~host_aux.visible
                   /\ unique_candidate_ids_ = << >>
    /\ (Ran("CandidateClicked") /\ ~cb.pre.table.visible) =>
          CommandsOf("SELECT_CANDIDATE") = {}

\* A shown list with a focused candidate was replaced by an Output without
\* candidates.
C22_Witness ==
    /\ cb.phase = "returned"
    /\ AppliedOutputs # {}
    /\ cb.pre.ids # << >>
    /\ cb.pre.aux.visible
    /\ cb.pre.aux.text = "2/5"
    /\ ~cb.log[LastApplied].out.has_candidates
    /\ unique_candidate_ids_ = << >>

----------------------------------------------------------------------------
(* UpdateConfig *)

GivenSection == cb.log[1].t
GivenName == cb.log[1].m
GivenValue == cb.log[1].out

\* The value has the type the field declares: a string that names an enum
\* value for an enum field, an integer for an unsigned integer field, a
\* boolean for a boolean field.
ValueMatchesField ==
    /\ GivenName \in {"preedit_method", "suggestions_size",
                       "use_auto_ime_turn_off"}
    /\ GivenName = "preedit_method" =>
          /\ GivenValue.type = G_TYPE_STRING
          /\ GivenValue.value \in {"ROMAN", "KANA", "KOTOERI"}
    /\ GivenName = "suggestions_size" => GivenValue.type = G_TYPE_INT
    /\ GivenName = "use_auto_ime_turn_off" =>
          GivenValue.type = G_TYPE_BOOLEAN

----------------------------------------------------------------------------
(* The quality test program *)

SentKeys == { i \in DOMAIN harness.log : harness.log[i].k = "SendKey" }

\* C24 as stated: the session is reverted after every test case that sent
\* key events to it, before any key event of the next case, also when no
\* preedit came back or scoring failed: no test case sends a key event
\* while key events of an earlier case are not reverted.
C24_Original ==
    harness.phase = "done" => ~(harness.pending /\ SentKeys # {})

\* The key code the table gives a code point outside 0x20..0x7F.
HalfWidth ==
    [c \in {12289, 65380} |-> 44] @@ [c \in {12290, 65294, 65377} |-> 46]
    @@ [c \in {8722, 8213} |-> 45] @@ [c \in {12300, 65378} |-> 91]
    @@ [c \in {12301, 65379} |-> 93] @@ [c \in {12539, 65381} |-> 47]

Mappable(c) == (c >= 32 /\ c <= 127) \/ c \in DOMAIN HalfWidth

\* C25: for a reading whose code points are all in 0x20..0x7F or in the
\* table, GenerateKeySequenceFrom succeeds with one key event per code
\* point, in order, and one SPACE special key after them (length = code
\* points + 1); a code point of 0x20..0x7F is its own key code and one of
\* the table gets its half-width key code (U+3002 gets 0x2E).  For any
\* other code point it fails, and the program then sends no key event to
\* the session for that case.
C25_KeySequence ==
    (harness.phase = "done" /\ ~harness.skipped) =>
        LET input == harness.input
            keys == harness.g.keys
        IN  IF \A i \in DOMAIN input : Mappable(input[i])
            THEN /\ harness.g.ok
                 /\ Len(keys) = Len(input) + 1
                 /\ keys[Len(keys)] = [special_key |-> "SPACE", key_code |-> 0]
                 /\ \A i \in DOMAIN input :
                       /\ keys[i].special_key = ""
                       /\ keys[i].key_code =
                             IF input[i] >= 32 /\ input[i] <= 127
                             THEN input[i] ELSE HalfWidth[input[i]]
                       /\ input[i] = 12290 => keys[i].key_code = 46
                 /\ Len(harness.log) >= Len(keys) + 1
                 /\ \A i \in DOMAIN keys :
                       harness.log[i + 1] = [k |-> "SendKey", key |-> keys[i]]
            ELSE /\ ~harness.g.ok
                 /\ ~harness.ok
                 /\ harness.log = << >>

\* A reading of a letter and a full-width period was turned into keys.
C25_Witness ==
    /\ harness.phase = "done"
    /\ harness.input = <<97, 12290>>
    /\ harness.g.ok
    /\ Len(harness.g.keys) = 3
    /\ Len(harness.log) >= 4

----------------------------------------------------------------------------
(* The reconciliation of the mode *)

\* The radio item of mode m, and no other, is checked.
OnlyChecked(m) ==
    \A i \in 1..kMozcEnginePropertiesSize :
        (prop_state[i] = PROP_STATE_CHECKED)
            = (kMozcEngineProperties[i].composition_mode = m)

OwnCommand ==
    /\ cb.phase = "returned"
    /\ cb.call.op \in {"ProcessKeyEvent", "CandidateClicked", "Disable",
                        "Enable", "FocusOut", "Reset"}
    /\ AppliedOutputs # {}

FirstApplied ==
    CHOOSE i \in AppliedOutputs : \A j \in AppliedOutputs : i <= j

NestedAgain ==
    /\ cb.phase = "running"
    /\ current_composition_mode_ # DIRECT
    /\ Cardinality(CommandsOf("SUBMIT")) = MaxDepth
    /\ \A i \in CommandsOf("SUBMIT") :
          cb.log[i].out.has_mode /\ cb.log[i].out.mode = DIRECT

\* C27 as stated: every callback returns after a bounded number of session
\* commands, whatever the session answers; applying an Output whose mode
\* differs from current_composition_mode_ never re-enters
\* SetCompositionMode without end, in particular not when the session
\* answers SUBMIT with the mode DIRECT while current_composition_mode_ is
\* not DIRECT.
C27_Original == ~NestedAgain

----------------------------------------------------------------------------
(* The focused row of the lookup table *)

\* The places in the list of the candidates whose index is the focused
\* index.
FocusedPlaces ==
    { i \in DOMAIN GivenOutput.candidates.candidate :
        GivenOutput.candidates.candidate[i].index
            = GivenOutput.candidates.focused_index }

\* C28: with a focused index, the row the table's cursor starts on is the
\* place in the list (from 0) of the candidate whose index field is the
\* focused index, not the focused index itself; of several such
\* candidates the last one counts; without such a candidate, or without a
\* focused index, the row is 0.  The cursor is visible exactly when there
\* is a focused index.
C28_FocusedRow ==
    (Ran("UpdateCandidates") /\ GivenOutput.has_candidates) =>
        /\ host_table.visible
        /\ host_table.cursor_visible
               = GivenOutput.candidates.has_focused_index
        /\ host_table.cursor_pos =
              IF GivenOutput.candidates.has_focused_index
                 /\ FocusedPlaces # {}
              THEN (CHOOSE i \in FocusedPlaces :
                        \A j \in FocusedPlaces : j <= i) - 1
              ELSE 0

\* Both candidates of a list carry the focused index 2: the cursor starts
\* on the second row, row 1.
C28_Witness ==
    /\ Ran("UpdateCandidates")
    /\ GivenOutput.has_candidates
    /\ GivenOutput.candidates.has_focused_index
    /\ GivenOutput.candidates.focused_index = 2
    /\ Len(GivenOutput.candidates.candidate) = 2
    /\ FocusedPlaces = {1, 2}
    /\ host_table.cursor_pos = 1

----------------------------------------------------------------------------
(* The interval of SyncData *)

Synced == CallsOf("SyncData") # {}

\* C29: SyncData without force calls the session's SyncData exactly when
\* the clock reads at least last_sync_time_ and at least kSyncDataInterval
\* (300 s) more than it: 300 s later it does, 299 s later it does not, and
\* when the clock reads less than last_sync_time_ it does not (the
\* unsigned difference, which would wrap around, is not looked at).
\* last_sync_time_ changes exactly when a sync is made and is then the
\* clock's reading.  It starts as the time of construction (1 in this
\* model), so no FocusOut syncs in the first 300 s.
C29_SyncInterval ==
    /\ Returned("FocusOut") =>
          /\ Synced = (now >= cb.pre.sync
                       /\ now - cb.pre.sync >= kSyncDataInterval)
          /\ now - cb.pre.sync = 300 => Synced
          /\ now - cb.pre.sync = 299 => ~Synced
          /\ now < cb.pre.sync => ~Synced
          /\ Cardinality(CallsOf("SyncData")) <= 1
    /\ cb.phase = "returned" =>
          last_sync_time_ = IF Synced THEN now ELSE cb.pre.sync
    /\ \A i \in DOMAIN focus_out_syncs : focus_out_syncs[i] >= 1 + 300

\* FocusOut ran exactly 300 s after the last sync and synced.
C29_Witness ==
    /\ Returned("FocusOut")
    /\ now - cb.pre.sync = 300
    /\ Synced
    /\ last_sync_time_ = now

----------------------------------------------------------------------------
(* The order of UpdateAll *)

\* The calls by which the engine follows the mode of an Output.
IsModeCall(ev) ==
    \/ ev.k \in {"call SetCompositionMode", "return SetCompositionMode",
                 "update_property"}
    \/ ev.k = "SendCommand" /\ ev.t \in {"SUBMIT", "SWITCH_INPUT_MODE"}

\* C30: an Output is applied in the order result, preedit, candidates,
\* composition mode: right after the session call that gave the Output the
\* host gets commit_text (exactly when the Output has a result), then the
\* preedit update (the hiding, exactly when the Output has no preedit),
\* then the lookup table and auxiliary text calls, and only then is any
\* command sent to follow the Output's mode; when that command is reached
\* unique_candidate_ids_ and what the host shows are already those of the
\* Output.
C30_UpdateAllOrder ==
    /\ cb.phase # "idle" =>
          \A i \in AppliedOutputs :
              LET out == cb.log[i].out
                  n == Len(RenderCalls(out))
              IN  /\ RenderedAfter(i, out)
                  /\ \A j \in DOMAIN cb.log :
                        (j > i /\ IsModeCall(cb.log[j])) => j > i + n
                  /\ (i = FirstApplied /\ out.has_mode
                         /\ out.mode # cb.pre.mode) =>
                        /\ cb.phase = "returned" => Len(cb.log) > i + n
                        /\ Len(cb.log) > i + n =>
                              /\ cb.log[i + n + 1].k
                                    = "call SetCompositionMode"
                              /\ cb.log[i + n + 1].m = out.mode
    /\ (cb.phase = "running" /\ AppliedOutputs # {}) =>
          LET out == cb.log[LastApplied].out
          IN  /\ unique_candidate_ids_ =
                     IF out.has_candidates THEN CandidateIds(out.candidates)
                     ELSE << >>
              /\ host_preedit.visible = out.has_preedit
              /\ host_table.visible = out.has_candidates

\* A key gave an Output with a result, a preedit, candidates and another
\* mode, and the engine went on to follow the mode.
C30_Witness ==
    /\ Returned("ProcessKeyEvent")
    /\ AppliedOutputs # {}
    /\ LET out == cb.log[FirstApplied].out
       IN  /\ out.has_result /\ out.has_preedit /\ out.has_candidates
           /\ out.has_mode /\ out.mode # cb.pre.mode
    /\ CallsOf("call SetCompositionMode") # {}
    /\ CallsOf("commit_text") # {}

----------------------------------------------------------------------------
(* The means the quality test program prints *)

\* C31 as stated: the test program prints a mean for every source label it
\* met and no CHECK ends it: the vector CalculateMean is given is never
\* empty, also for a label all of whose cases were invalid or failed to
\* score; and no label collects more than max_case_for_source scores.
C31_Original ==
    /\ harness.phase # "abort"
    /\ harness.phase = "exit" =>
          { harness.printed[i] : i \in DOMAIN harness.printed }
              = DOMAIN harness.scores
    /\ \A source \in DOMAIN harness.scores :
          harness.scores[source] <= max_case_for_source

----------------------------------------------------------------------------
(* The commands of the Qt renderer *)

\* The window manager calls of the i-th executed command, by name.
CallNames(i) ==
    [j \in DOMAIN renderer[i].calls |-> renderer[i].calls[j].k]

\* C32: ExecCommand makes exactly the window manager call of the command:
\* UPDATE with visible false calls HideAllWindows only, UPDATE with visible
\* true calls UpdateLayout (with the command) only, and NOOP, SHUTDOWN and
\* a type without a case call neither; it returns false for SHUTDOWN only.
C32_ExecCommandDispatch ==
    \A i \in DOMAIN renderer :
        LET command == renderer[i].command
        IN  /\ CallNames(i) =
                   IF command.type # UPDATE THEN << >>
                   ELSE IF command.visible THEN <<"UpdateLayout">>
                   ELSE <<"HideAllWindows">>
            /\ \A j \in DOMAIN renderer[i].calls :
                  renderer[i].calls[j].k = "UpdateLayout" =>
                      renderer[i].calls[j].command = <<command>>
            /\ renderer[i].ret = (command.type # SHUTDOWN)

\* The renderer hid its windows, laid them out, and refused a SHUTDOWN.
C32_Witness ==
    /\ Len(renderer) = 3
    /\ renderer[1].command = [type |-> UPDATE, visible |-> FALSE]
    /\ renderer[1].calls = <<HideAllWindows>>
    /\ renderer[2].command = [type |-> UPDATE, visible |-> TRUE]
    /\ CallNames(2) = <<"UpdateLayout">>
    /\ renderer[3].command.type = SHUTDOWN
    /\ ~renderer[3].ret

====
